---- MODULE Spec2Model ----
(***************************************************************************)
(* A model of the tinkerbell/dhcp library: the Listener that fans every    *)
(* decoded DHCPv4 packet out to its registered handlers, the Reservation   *)
(* and Proxy handlers, and the netboot option logic they share.            *)
(*                                                                         *)
(* Three families of specifications live here:                             *)
(*   Spec        - the handlers: one Handle call per step, on a packet, a  *)
(*                 backend answer and a write outcome drawn from sets.     *)
(*   FnSpec      - the netboot functions called directly: one call of      *)
(*                 BootfileAndNextServer or IsNetbootClient per step.      *)
(*   ListenSpec  - the Listener: Serve, the server4 receive loop, the      *)
(*                 per-packet goroutines and context cancellation          *)
(*                 (FairListenSpec adds the scheduler's fairness).         *)
(***************************************************************************)
EXTENDS Integers, Sequences, FiniteSets, TLC

VARIABLES
    h,          \* the handler under test: a reservation.Handler or a proxy.Handler
    call,       \* the Handle call delivered to h: packet, peer, backend answer, trace
    handled,    \* whether h.Handle has run on that call
    sent,       \* the datagrams Handle handed to conn.WriteTo, in order
    span,       \* the status Handle left on its tracing span
    ret,        \* what a direct call of a netboot function returned
    handlers,   \* Listener.handlers, in registration order
    ctxDone,    \* whether the context passed to Serve is cancelled
    conn,       \* the net.PacketConn given to Serve: "nil", "open", "closed"
    servePc,    \* where Listener.Serve is: "idle", "select", "returned"
    serveRet,   \* what Listener.Serve returned
    srvPc,      \* where the goroutine running dhcp.Serve() is
    errCh,      \* the buffered channel errCh (capacity 1)
    received,   \* the number of datagrams read from the socket so far
    gor,        \* one goroutine per decoded packet: its position in l.handler
    srv,        \* l.srv of the Listener that has a Shutdown: "nil" or "set"
    srvMu,      \* who holds l.srvMu: "" or "Shutdown"
    shutPc,     \* where Listener.Shutdown is: "idle", "locked", "returned"
    shutRet     \* what Listener.Shutdown returned

hvars == <<h, call, handled, sent, span, ret>>
svars == <<srv, srvMu, shutPc, shutRet>>
lvars == <<handlers, ctxDone, conn, servePc, serveRet, srvPc, errCh, received, gor, srv,
           srvMu, shutPc, shutRet>>
vars == <<h, call, handled, sent, span, ret, handlers, ctxDone, conn, servePc, serveRet,
          srvPc, errCh, received, gor, srv, srvMu, shutPc, shutRet>>

(***************************************************************************)
(* Strings, IP addresses and URLs.                                         *)
(***************************************************************************)

\* strings.HasPrefix
HasPrefix(s, p) == Len(s) >= Len(p) /\ SubSeq(s, 1, Len(p)) = p

\* The text before the first occurrence of the one-character separator sep:
\* strings.Split(s, sep)[0].
RECURSIVE SplitHead(_, _)
SplitHead(s, sep) ==
    IF Len(s) = 0 THEN ""
    ELSE IF SubSeq(s, 1, 1) = sep THEN ""
    ELSE SubSeq(s, 1, 1) \o SplitHead(SubSeq(s, 2, Len(s)), sep)

\* The text after the first occurrence of sep ("" when there is none).
RECURSIVE SplitTail(_, _)
SplitTail(s, sep) ==
    IF Len(s) = 0 THEN ""
    ELSE IF SubSeq(s, 1, 1) = sep THEN SubSeq(s, 2, Len(s))
    ELSE SplitTail(SubSeq(s, 2, Len(s)), sep)

\* Whether sep occurs in s.
RECURSIVE Contains(_, _)
Contains(s, sep) ==
    IF Len(s) = 0 THEN FALSE
    ELSE SubSeq(s, 1, 1) = sep \/ Contains(SubSeq(s, 2, Len(s)), sep)

Digits == <<"0", "1", "2", "3", "4", "5", "6", "7", "8", "9">>

IsDigit(c) == \E i \in 1..10 : Digits[i] = c

DigitVal(c) == (CHOOSE i \in 1..10 : Digits[i] = c) - 1

\* The value of a decimal field of an IPv4 literal, or -1 when s is not one
\* (empty, more than three characters, a non-digit, or above 255).
RECURSIVE DecimalAcc(_, _)
DecimalAcc(s, acc) ==
    IF Len(s) = 0 THEN acc
    ELSE IF ~IsDigit(SubSeq(s, 1, 1)) THEN -1
    ELSE DecimalAcc(SubSeq(s, 2, Len(s)), acc * 10 + DigitVal(SubSeq(s, 1, 1)))

Octet(s) ==
    IF Len(s) = 0 \/ Len(s) > 3 THEN -1
    ELSE LET v == DecimalAcc(s, 0) IN IF v > 255 THEN -1 ELSE v

\* A net.IP is a tuple of four octets; the nil net.IP is the empty tuple.
NilIP == <<>>
IPv4zero == <<0, 0, 0, 0>>

\* net.ParseIP for dotted-quad text: the address, or nil when s is not one.
ParseIP(s) ==
    LET a == SplitHead(s, ".")
        r1 == SplitTail(s, ".")
        b == SplitHead(r1, ".")
        r2 == SplitTail(r1, ".")
        c == SplitHead(r2, ".")
        d == SplitTail(r2, ".")
        o == <<Octet(a), Octet(b), Octet(c), Octet(d)>>
    IN IF Contains(s, ".") /\ Contains(r1, ".") /\ Contains(r2, ".")
          /\ ~Contains(d, ".") /\ \A i \in 1..4 : o[i] >= 0
       THEN o
       ELSE NilIP

\* net.IP.String for an IPv4 address.
IPString(ip) ==
    IF ip = NilIP THEN "<nil>"
    ELSE ToString(ip[1]) \o "." \o ToString(ip[2]) \o "." \o ToString(ip[3])
         \o "." \o ToString(ip[4])

\* net.IP.IsUnspecified
IsUnspecified(ip) == ip = IPv4zero

\* A netaddr.IPPort; the zero IPPort holds the nil IP.
IPPort(ip, port) == [IP |-> ip, Port |-> port]
IPPortString(a) == IPString(a.IP) \o ":" \o ToString(a.Port)

\* A *url.URL is the empty tuple (nil) or a one-element tuple holding the URL.
NilURL == <<>>
URL(scheme, host, path) == <<[Scheme |-> scheme, Host |-> host, Path |-> path]>>
\* url.URL.String (fmt prints a nil *url.URL as "<nil>").
URLString(u) ==
    IF u = NilURL THEN "<nil>"
    ELSE (IF u[1].Scheme # "" THEN u[1].Scheme \o ":" ELSE "")
         \o (IF u[1].Host # "" THEN "//" \o u[1].Host ELSE "")
         \o (IF u[1].Path # "" /\ u[1].Host # "" /\ ~HasPrefix(u[1].Path, "/")
             THEN "/" ELSE "")
         \o u[1].Path
URLHost(u) == u[1].Host

(***************************************************************************)
(* DHCPv4 packets as the codec hands them to a handler.                    *)
(***************************************************************************)

DISCOVER == "DISCOVER"
OFFER == "OFFER"
REQUEST == "REQUEST"
DECLINE == "DECLINE"
ACK == "ACK"
NAK == "NAK"
RELEASE == "RELEASE"
INFORM == "INFORM"
\* dhcpv4.MessageTypeNone: what MessageType() answers without option 53.
MessageTypeNone == "NONE"

\* Option codes.
OptionSubnetMask == 1
OptionRouter == 3
OptionDomainNameServer == 6
OptionHostName == 12
OptionDomainName == 15
OptionBroadcastAddress == 28
OptionNTPServers == 42
OptionVendorSpecificInformation == 43
OptionIPAddressLeaseTime == 51
OptionDHCPMessageType == 53
OptionServerIdentifier == 54
OptionClassIdentifier == 60
OptionUserClassInformation == 77
OptionClientSystemArchitectureType == 93
OptionClientNetworkInterfaceIdentifier == 94
OptionClientMachineIdentifier == 97
OptionDNSDomainSearchList == 119

\* dhcpv4.Options is a map from option code to value; the empty map.
NoOptions == <<>>

\* Options.Has
Has(opts, code) == code \in DOMAIN opts

\* Options.Get / DHCPv4.GetOneOption for a byte-string option: nil when absent.
GetBytes(opts, code) == IF Has(opts, code) THEN opts[code] ELSE <<>>

\* The same read as Go's string(...) of the value: "" when absent.
GetString(opts, code) == IF Has(opts, code) THEN opts[code] ELSE ""

\* DHCPv4.UpdateOption
UpdateOption(opts, code, value) ==
    [c \in DOMAIN opts \cup {code} |-> IF c = code THEN value ELSE opts[c]]

\* The nil *dhcpv4.DHCPv4.
NilPacket == [nil |-> TRUE]

\* DHCPv4.MessageType
MessageType(pkt) ==
    IF Has(pkt.Options, OptionDHCPMessageType)
    THEN pkt.Options[OptionDHCPMessageType]
    ELSE MessageTypeNone

\* DHCPv4.ClassIdentifier
ClassIdentifier(pkt) == GetString(pkt.Options, OptionClassIdentifier)

\* DHCPv4.ClientArch: the architectures of option 93, empty when absent.
ClientArch(pkt) ==
    IF Has(pkt.Options, OptionClientSystemArchitectureType)
    THEN pkt.Options[OptionClientSystemArchitectureType]
    ELSE <<>>

HexDigits == <<"0", "1", "2", "3", "4", "5", "6", "7", "8", "9",
               "a", "b", "c", "d", "e", "f">>

HexByte(b) == HexDigits[(b \div 16) + 1] \o HexDigits[(b % 16) + 1]

\* strings.ToLower(net.HardwareAddr.String()): "dc:a6:32:01:02:03".
RECURSIVE MACString(_)
MACString(hw) ==
    IF Len(hw) = 0 THEN ""
    ELSE IF Len(hw) = 1 THEN HexByte(hw[1])
    ELSE HexByte(hw[1]) \o ":" \o MACString(Tail(hw))

\* The Raspberry Pi prefixes both IsRPI functions compare against.
RPiPrefixes == {"28:cd:c1", "b8:27:eb", "dc:a6:32", "e4:5f:01"}

\* rpi.IsRPI: a switch on the whole lower-cased address text.
IsRPI(hw) == MACString(hw) \in RPiPrefixes

\* option.isRPI: strings.HasPrefix on the lower-cased address text.
isRPI(hw) == \E p \in RPiPrefixes : HasPrefix(MACString(hw), p)

\* The architectures iana.Arch.String names; any other prints "unknown".
IanaNamedArchs == 0..24

\* iana.Arch(255), what GetArch answers for an unknown architecture.
ArchUnknown == 255

\* iana.Arch(41), the Raspberry Pi architecture.
ArchRPI == 41

\* An ArchToBootFile that also serves snp.efi to U-Boot on 64-bit ARM (22).
ArchToBootFileWithUBoot ==
    [a \in {0, 1, 2, 3, 4, 5} |-> "undionly.kpxe"]
    @@ [a \in {6, 7, 8, 9, 15, 16} |-> "ipxe.efi"]
    @@ [a \in {10, 11, 18, 19, 22, 41} |-> "snp.efi"]

\* ArchToBootFile: the iPXE binary of each supported architecture.
ArchToBootFile ==
    [a \in {0, 1, 2, 3, 4, 5} |-> "undionly.kpxe"]
    @@ [a \in {6, 7, 8, 9, 15, 16} |-> "ipxe.efi"]
    @@ [a \in {10, 11, 18, 19, 41} |-> "snp.efi"]

\* The first element of option 93 whose name is not "unknown", else 255.
RECURSIVE FirstNamedArch(_)
FirstNamedArch(fwt) ==
    IF Len(fwt) = 0 THEN ArchUnknown
    ELSE IF Head(fwt) \in IanaNamedArchs THEN Head(fwt)
    ELSE FirstNamedArch(Tail(fwt))

\* option.GetArch
GetArch(pkt) ==
    IF Len(ClientArch(pkt)) = 0 THEN ArchUnknown
    ELSE IF IsRPI(pkt.ClientHWAddr) THEN ArchRPI
    ELSE FirstNamedArch(ClientArch(pkt))

\* proxy's arch
arch(pkt) ==
    IF Len(ClientArch(pkt)) = 0 THEN ArchUnknown
    ELSE IF IsRPI(pkt.ClientHWAddr) THEN ArchRPI
    ELSE FirstNamedArch(ClientArch(pkt))

PXEClient == "PXEClient"
HTTPClient == "HTTPClient"
IPXE == "iPXE"
Tinkerbell == "Tinkerbell"

\* An IsNetbootClient that does not ask for option 94.
IsNetbootClientWithout94(pkt) ==
    LET guid == GetBytes(pkt.Options, OptionClientMachineIdentifier) IN
    IF MessageType(pkt) # DISCOVER /\ MessageType(pkt) # REQUEST
    THEN "message type must be either Discover or Request"
    ELSE IF ~Has(pkt.Options, OptionClassIdentifier)
    THEN "option 60 not set"
    ELSE IF ~HasPrefix(ClassIdentifier(pkt), PXEClient)
            /\ ~HasPrefix(ClassIdentifier(pkt), HTTPClient)
    THEN "option 60 must start with PXEClient or HTTPClient"
    ELSE IF ~Has(pkt.Options, OptionClientSystemArchitectureType)
    THEN "option 93 not set"
    ELSE IF Len(guid) = 0 THEN ""
    ELSE IF Len(guid) = 17
    THEN (IF guid[1] # 0 THEN "option 97 does not start with 0" ELSE "")
    ELSE "option 97 has invalid length (must be 0 or 17)"

\* option.IsNetbootClient: "" is the nil error, any other text the error.
IsNetbootClient(pkt) ==
    LET guid == GetBytes(pkt.Options, OptionClientMachineIdentifier) IN
    IF MessageType(pkt) # DISCOVER /\ MessageType(pkt) # REQUEST
    THEN "message type must be either Discover or Request"
    ELSE IF ~Has(pkt.Options, OptionClassIdentifier)
    THEN "option 60 not set"
    ELSE IF ~HasPrefix(ClassIdentifier(pkt), PXEClient)
            /\ ~HasPrefix(ClassIdentifier(pkt), HTTPClient)
    THEN "option 60 must start with PXEClient or HTTPClient"
    ELSE IF ~Has(pkt.Options, OptionClientSystemArchitectureType)
    THEN "option 93 not set"
    ELSE IF ~Has(pkt.Options, OptionClientNetworkInterfaceIdentifier)
    THEN "option 94 not set"
    ELSE IF Len(guid) = 0 THEN ""
    ELSE IF Len(guid) = 17
    THEN (IF guid[1] # 0 THEN "option 97 does not start with 0" ELSE "")
    ELSE "option 97 has invalid length (must be 0 or 17)"

\* proxy.Handler.isNetbootClient
isNetbootClient(pkt) ==
    LET guid == GetBytes(pkt.Options, OptionClientMachineIdentifier) IN
    IF MessageType(pkt) # DISCOVER /\ MessageType(pkt) # REQUEST
    THEN "message type must be either Discover or Request"
    ELSE IF ~Has(pkt.Options, OptionClassIdentifier)
    THEN "option 60 not set"
    ELSE IF ~HasPrefix(ClassIdentifier(pkt), PXEClient)
            /\ ~HasPrefix(ClassIdentifier(pkt), HTTPClient)
    THEN "option 60 must start with PXEClient or HTTPClient"
    ELSE IF ~Has(pkt.Options, OptionClientSystemArchitectureType)
    THEN "option 93 not set"
    ELSE IF ~Has(pkt.Options, OptionClientNetworkInterfaceIdentifier)
    THEN "option 94 not set"
    ELSE IF Len(guid) = 0 THEN ""
    ELSE IF Len(guid) = 17
    THEN (IF guid[1] # 0 THEN "option 97 does not start with 0" ELSE "")
    ELSE "option 97 has invalid length (must be 0 or 17)"

(***************************************************************************)
(* Tracing: the span context a Handle call runs under.                     *)
(***************************************************************************)

RECURSIVE HexString(_)
HexString(bytes) ==
    IF Len(bytes) = 0 THEN "" ELSE HexByte(Head(bytes)) \o HexString(Tail(bytes))

\* A trace.SpanContext: TraceID (16 bytes), SpanID (8 bytes), the sampled flag.
SpanContext(tid, sid, sampled) == [TraceID |-> tid, SpanID |-> sid, Sampled |-> sampled]

\* SpanContext.IsValid: neither id is all zeros.
SpanContextIsValid(sc) ==
    (\E i \in 1..Len(sc.TraceID) : sc.TraceID[i] # 0)
    /\ (\E i \in 1..Len(sc.SpanID) : sc.SpanID[i] # 0)

\* otelhelpers.TraceparentStringFromContext: "" without a valid span context.
TraceparentStringFromContext(sc) ==
    IF ~SpanContextIsValid(sc) THEN ""
    ELSE "00-" \o HexString(sc.TraceID) \o "-" \o HexString(sc.SpanID) \o "-"
         \o (IF sc.Sampled THEN "01" ELSE "00")

\* A TraceparentFromContext whose flags byte is 0x00 whatever the span is.
TraceparentFromContextFlagsZero(sc) == <<0>> \o sc.TraceID \o sc.SpanID \o <<0>>

\* TraceparentFromContext: version, trace id, span id, flags: 26 bytes.
TraceparentFromContext(sc) ==
    <<0>> \o sc.TraceID \o sc.SpanID \o (IF sc.Sampled THEN <<1>> ELSE <<0>>)

(***************************************************************************)
(* The reply under construction and the dhcpv4 modifiers applied to it.    *)
(***************************************************************************)

\* dhcpv4.New: the packet every reply starts from.
New ==
    [OpCode |-> "BootRequest", TransactionID |-> 0, ClientHWAddr |-> <<0, 0, 0, 0, 0, 0>>,
     GatewayIPAddr |-> IPv4zero, YourIPAddr |-> IPv4zero, ServerIPAddr |-> IPv4zero,
     BootFileName |-> "", ServerHostName |-> "", Options |-> NoOptions]

\* dhcpv4.WithReply followed by WithGatewayIP, as NewReplyFromRequest prepends.
WithReply(d, request) ==
    [d EXCEPT !.OpCode = IF request.OpCode = "BootRequest" THEN "BootReply"
                         ELSE "BootRequest",
              !.ClientHWAddr = request.ClientHWAddr,
              !.TransactionID = request.TransactionID,
              !.GatewayIPAddr = request.GatewayIPAddr]

\* dhcpv4.WithGeneric / WithOption: d.UpdateOption(code, value).
WithGeneric(d, code, value) == [d EXCEPT !.Options = UpdateOption(@, code, value)]

WithMessageType(d, m) == WithGeneric(d, OptionDHCPMessageType, m)

WithServerIP(d, ip) == [d EXCEPT !.ServerIPAddr = ip]

WithYourIP(d, ip) == [d EXCEPT !.YourIPAddr = ip]

WithHwAddr(d, hw) == [d EXCEPT !.ClientHWAddr = hw]

\* dhcpv4.WithUserClass(uc, true): option 77 in RFC 3004 form.
WithUserClass(d, uc) == WithGeneric(d, OptionUserClassInformation, <<uc>>)

\* option.SetOpt60: answers HTTPClient to an HTTPClient, PXEClient otherwise.
SetOpt60(d, opt60FromClient) ==
    WithGeneric(d, OptionClassIdentifier,
                IF HasPrefix(opt60FromClient, HTTPClient) THEN HTTPClient ELSE PXEClient)

\* option.GetClientType
GetClientType(opt60) == IF HasPrefix(opt60, HTTPClient) THEN HTTPClient ELSE PXEClient

\* []byte(s) for a string of decimal digits (a VLAN id).
RECURSIVE DigitBytes(_)
DigitBytes(s) ==
    IF Len(s) = 0 THEN <<>>
    ELSE <<48 + DigitVal(SubSeq(s, 1, 1))>> \o DigitBytes(SubSeq(s, 2, Len(s)))

\* dhcpv4.Options.ToBytes: code, length, value of each option, by rising code.
RECURSIVE OptionsToBytes(_)
OptionsToBytes(opts) ==
    IF DOMAIN opts = {} THEN <<>>
    ELSE LET c == CHOOSE x \in DOMAIN opts : \A y \in DOMAIN opts : x <= y
         IN <<c, Len(opts[c])>> \o opts[c]
            \o OptionsToBytes([x \in DOMAIN opts \ {c} |-> opts[x]])

\* The Raspberry Pi suboptions 9 and 10 of option 43.
RPiSubOpt9 == <<0, 0, 17, 82, 97, 115, 112, 98, 101, 114, 114, 121, 32, 80, 105, 32,
                66, 111, 111, 116>>
RPiSubOpt10 == <<0, 80, 88, 69>>

\* option.addVendorOpts / rpi.AddVendorOpts
AddVendorOpts(pxe) == UpdateOption(UpdateOption(pxe, 9, RPiSubOpt9), 10, RPiSubOpt10)

\* Conf.setOpt43: suboptions 6 and 69, 116 for a VLAN, 9 and 10 for a Pi.
setOpt43(d, sc, mac, vlan) ==
    LET base == UpdateOption(UpdateOption(NoOptions, 6, <<8>>), 69, TraceparentFromContext(sc))
        withVlan == IF vlan # "" THEN UpdateOption(base, 116, DigitBytes(vlan)) ELSE base
        pxe == IF isRPI(mac) THEN AddVendorOpts(withVlan) ELSE withVlan
    IN WithGeneric(d, OptionVendorSpecificInformation, OptionsToBytes(pxe))

\* A BootfileAndNextServer whose iPXE case leaves the "tftp://" scheme off.
BootfileAndNextServerNoScheme(sc, pktUserClass, customUserClass, opt60, bin0, tftp, ipxe, iscript, otelEnabled) ==
    LET tp == TraceparentStringFromContext(sc)
        bin == IF otelEnabled /\ tp # "" THEN bin0 \o "-" \o tp ELSE bin0
        ns == ParseIP(SplitHead(URLHost(ipxe), ":"))
    IN IF pktUserClass = Tinkerbell
          \/ (customUserClass # "" /\ pktUserClass = customUserClass)
       THEN <<IF iscript # NilURL THEN URLString(iscript) ELSE "/no-ipxe-script-defined",
              tftp.IP>>
       ELSE IF opt60 = HTTPClient
       THEN <<URLString(ipxe) \o "/" \o bin, IF ns = NilIP THEN ParseIP("0.0.0.0") ELSE ns>>
       ELSE IF pktUserClass = IPXE
       THEN <<IPPortString(tftp) \o "/" \o bin, tftp.IP>>
       ELSE <<bin, tftp.IP>>

\* option.BootfileAndNextServer: <<bootfile, next server>>.
BootfileAndNextServer(sc, pktUserClass, customUserClass, opt60, bin0, tftp, ipxe, iscript, otelEnabled) ==
    LET tp == TraceparentStringFromContext(sc)
        bin == IF otelEnabled /\ tp # "" THEN bin0 \o "-" \o tp ELSE bin0
        ns == ParseIP(SplitHead(URLHost(ipxe), ":"))
    IN IF pktUserClass = Tinkerbell
          \/ (customUserClass # "" /\ pktUserClass = customUserClass)
       THEN <<IF iscript # NilURL THEN URLString(iscript) ELSE "/no-ipxe-script-defined",
              tftp.IP>>
       ELSE IF opt60 = HTTPClient
       THEN <<URLString(ipxe) \o "/" \o bin, IF ns = NilIP THEN ParseIP("0.0.0.0") ELSE ns>>
       ELSE IF pktUserClass = IPXE
       THEN <<"tftp://" \o IPPortString(tftp) \o "/" \o bin, tftp.IP>>
       ELSE <<bin, tftp.IP>>

\* A setBootfileAndServerIP that passes the server's script URL on whatever
\* the record carries.
setBootfileAndServerIPDefaultScript(c, d, sc, m, n) ==
    LET a == GetArch(m)
        uClass == GetString(m.Options, OptionUserClassInformation)
        bn == BootfileAndNextServer(sc, uClass, c.UserClass, GetClientType(ClassIdentifier(m)),
                                    ArchToBootFile[a], c.IPXEBinServerTFTP,
                                    c.IPXEBinServerHTTP, c.IPXEScriptURL, c.OTELEnabled)
    IN IF a \notin DOMAIN ArchToBootFile THEN d
       ELSE [d EXCEPT !.BootFileName = bn[1], !.ServerIPAddr = bn[2]]

\* Conf.setBootfileAndServerIP: nothing is set for an unsupported architecture.
setBootfileAndServerIP(c, d, sc, m, n) ==
    LET a == GetArch(m)
        uClass == GetString(m.Options, OptionUserClassInformation)
        ipxeScript == IF n.IPXEScriptURL # NilURL THEN n.IPXEScriptURL ELSE c.IPXEScriptURL
        bn == BootfileAndNextServer(sc, uClass, c.UserClass, GetClientType(ClassIdentifier(m)),
                                    ArchToBootFile[a], c.IPXEBinServerTFTP,
                                    c.IPXEBinServerHTTP, ipxeScript, c.OTELEnabled)
    IN IF a \notin DOMAIN ArchToBootFile THEN d
       ELSE [d EXCEPT !.BootFileName = bn[1], !.ServerIPAddr = bn[2]]

\* Conf.SetNetworkBootOpts: its four modifiers, applied in order.
SetNetworkBootOpts(c, d, sc, pkt, n) ==
    WithUserClass(
        setBootfileAndServerIP(c,
            setOpt43(SetOpt60(d, ClassIdentifier(pkt)), sc, pkt.ClientHWAddr, n.VLAN),
            sc, pkt, n),
        Tinkerbell)

(***************************************************************************)
(* Backend records (data.DHCP, data.Netboot) and their translation.        *)
(***************************************************************************)

WithLeaseTime(d, secs) == WithGeneric(d, OptionIPAddressLeaseTime, secs)

\* data.DHCP.ToDHCPMods, applied in order: the hardware address and the lease
\* time always, every other field only when it is not its zero value.
ToDHCPMods(rec, d0) ==
    LET d1 == WithLeaseTime(WithHwAddr(d0, rec.MACAddress), rec.LeaseTime)
        d2 == IF rec.IPAddress # NilIP THEN WithYourIP(d1, rec.IPAddress) ELSE d1
        d3 == IF Len(rec.NameServers) > 0
              THEN WithGeneric(d2, OptionDomainNameServer, rec.NameServers) ELSE d2
        d4 == IF Len(rec.DomainSearch) > 0
              THEN WithGeneric(d3, OptionDNSDomainSearchList, rec.DomainSearch) ELSE d3
        d5 == IF Len(rec.NTPServers) > 0
              THEN WithGeneric(d4, OptionNTPServers, rec.NTPServers) ELSE d4
        d6 == IF rec.BroadcastAddress # NilIP
              THEN WithGeneric(d5, OptionBroadcastAddress, rec.BroadcastAddress) ELSE d5
        d7 == IF rec.DomainName # ""
              THEN WithGeneric(d6, OptionDomainName, rec.DomainName) ELSE d6
        d8 == IF rec.Hostname # ""
              THEN WithGeneric(d7, OptionHostName, rec.Hostname) ELSE d7
        d9 == IF Len(rec.SubnetMask) > 0
              THEN WithGeneric(d8, OptionSubnetMask, rec.SubnetMask) ELSE d8
    IN IF rec.DefaultGateway # NilIP
       THEN WithGeneric(d9, OptionRouter, <<rec.DefaultGateway>>) ELSE d9

(***************************************************************************)
(* The Reservation handler.                                                *)
(***************************************************************************)

\* Handler.setDefaults: a nil Backend becomes the noop backend.
setDefaults(hh) == IF hh.Backend = "nil" THEN [hh EXCEPT !.Backend = "noop"] ELSE hh

\* noop.Handler.Read: always the error, never a record.
NoopRead == [err |-> "no backend specified, please specify a backend"]

\* A readBackend that logs the backend's error and returns an empty record
\* with a nil error.
readBackendSwallowsError(hh, answer) ==
    IF setDefaults(hh).Backend = "noop" \/ answer.err # ""
    THEN [err |-> "",
          d |-> [MACAddress |-> <<>>, IPAddress |-> NilIP, SubnetMask |-> <<>>,
                 DefaultGateway |-> NilIP, NameServers |-> <<>>, Hostname |-> "",
                 DomainName |-> "", BroadcastAddress |-> NilIP, NTPServers |-> <<>>,
                 LeaseTime |-> 0, DomainSearch |-> <<>>],
          n |-> [AllowNetboot |-> TRUE, IPXEScriptURL |-> NilURL, VLAN |-> ""]]
    ELSE answer

\* Handler.readBackend: the backend's answer for the client's address.
readBackend(hh, answer) == IF setDefaults(hh).Backend = "noop" THEN NoopRead ELSE answer

\* The option.Conf that reservation.Handler.updateMsg builds from its fields.
Conf(hh) ==
    [IPXEScriptURL |-> hh.Netboot.IPXEScriptURL, UserClass |-> hh.Netboot.UserClass,
     IPXEBinServerTFTP |-> hh.Netboot.IPXEBinServerTFTP,
     IPXEBinServerHTTP |-> hh.Netboot.IPXEBinServerHTTP, OTELEnabled |-> hh.OTELEnabled]

\* A gate that, like the handler before AllowNetboot was checked here, asks
\* only for netboot to be enabled and the packet to be a netboot client.
netbootGateWithoutAllow(hh, pkt, n) == hh.Netboot.Enabled /\ IsNetbootClient(pkt) = ""

\* updateMsg's condition for adding the netboot modifiers.
netbootGate(hh, pkt, n) ==
    hh.Netboot.Enabled /\ n.AllowNetboot /\ IsNetbootClient(pkt) = ""

\* An updateMsg that appends the record's modifiers whatever DHCPEnabled is.
updateMsgAlwaysDHCP(hh, sc, pkt, d, n, msgType) ==
    LET r0 == WithReply(New, pkt)
        r1 == WithGeneric(WithMessageType(r0, msgType), OptionServerIdentifier, hh.IPAddr)
        r2 == ToDHCPMods(d, r1)
    IN IF netbootGate(hh, pkt, n)
       THEN SetNetworkBootOpts(Conf(hh), r2, sc, pkt, n)
       ELSE r2

\* reservation.Handler.updateMsg: NewReplyFromRequest(pkt, mods...).
updateMsg(hh, sc, pkt, d, n, msgType) ==
    LET r0 == WithReply(New, pkt)
        r1 == WithGeneric(WithMessageType(r0, msgType), OptionServerIdentifier, hh.IPAddr)
        r2 == IF hh.DHCPEnabled THEN ToDHCPMods(d, r1) ELSE r1
    IN IF netbootGate(hh, pkt, n)
       THEN SetNetworkBootOpts(Conf(hh), r2, sc, pkt, n)
       ELSE r2

\* A switch whose cases after RELEASE are missing: every other type goes on.
messageSwitchReleaseOnly(mt) == IF mt = RELEASE THEN "Ok" ELSE "continue"

\* Handle's switch on the message type: the span status it returns with, or
\* "continue" for the types it goes on to answer.
messageSwitch(mt) ==
    IF mt \in {RELEASE, DECLINE, NAK} THEN "Ok"
    ELSE IF mt = INFORM THEN "Ok"
    ELSE IF mt \in {DISCOVER, REQUEST} THEN "continue"
    ELSE "Error"

\* A reply type that is OFFER whatever was received.
replyTypeAlwaysOffer(mt) == OFFER

\* Handle's choice of the reply's type: ACK to a REQUEST, OFFER otherwise.
replyType(mt) == IF mt = REQUEST THEN ACK ELSE OFFER

\* reply.ToBytes() on the nil reply updateMsg returns when
\* NewReplyFromRequest fails: the goroutine panics before conn.WriteTo is
\* called, and the deferred span.End() ends the span with no status set.
ToBytesOfNil == [sent |-> <<>>, span |-> "Unset", panic |-> TRUE]

\* What one call of reservation.Handler.Handle does: the datagrams it hands
\* to conn.WriteTo, the status it leaves on its span, and whether it panics;
\* updateMsg returns nil when NewReplyFromRequest fails.
reservationHandle(hh, in) ==
    LET mt == MessageType(in.pkt)
        ans == readBackend(hh, in.answer)
        reply == IF in.buildErr THEN NilPacket
                 ELSE updateMsg(hh, in.sc, in.pkt, ans.d, ans.n, replyType(mt))
    IN IF in.pkt = NilPacket THEN [sent |-> <<>>, span |-> "Unset", panic |-> FALSE]
       ELSE IF messageSwitch(mt) # "continue"
       THEN [sent |-> <<>>, span |-> messageSwitch(mt), panic |-> FALSE]
       ELSE IF ans.err # "" THEN [sent |-> <<>>, span |-> "Error", panic |-> FALSE]
       ELSE IF reply = NilPacket THEN ToBytesOfNil
       ELSE [sent |-> <<[b |-> reply, addr |-> in.peer]>>,
             span |-> IF in.writeErr THEN "Error" ELSE "Ok", panic |-> FALSE]

(***************************************************************************)
(* The Proxy handler.                                                      *)
(***************************************************************************)

\* proxy's setOpt54And60AndSNAME: option 60 and sname from the class
\* identifier it is given; <<the reply, the client type it chose>>.
setOpt54And60AndSNAME(d, opt60FromClient, tftp, http) ==
    LET isHTTP == HasPrefix(opt60FromClient, HTTPClient)
        opt60 == IF isHTTP THEN HTTPClient ELSE PXEClient
        opt54 == IF isHTTP THEN http ELSE tftp
    IN <<[WithGeneric(d, OptionClassIdentifier, opt60) EXCEPT !.ServerHostName = IPString(opt54)],
         opt60>>

\* proxy's setOpt97: option 97 is set even when the client sent none.
setOpt97(d, guid) == WithGeneric(d, OptionClientMachineIdentifier, guid)

\* proxy.Handler.bootfileAndNextServer: <<bootfile, next server>>.
bootfileAndNextServer(hh, sc, uClass, opt60, bin0, tftp, ipxe, iscript) ==
    LET tp == TraceparentStringFromContext(sc)
        bin == IF hh.OTELEnabled /\ tp # "" THEN bin0 \o "-" \o tp ELSE bin0
        ns == ParseIP(SplitHead(URLHost(ipxe), ":"))
    IN IF uClass = Tinkerbell \/ (hh.Netboot.UserClass # "" /\ uClass = hh.Netboot.UserClass)
       THEN <<IF iscript # NilURL THEN URLString(iscript) ELSE "/no-ipxe-script-defined",
              tftp.IP>>
       ELSE IF opt60 = HTTPClient
       THEN <<URLString(ipxe) \o "/" \o bin, IF ns = NilIP THEN ParseIP("0.0.0.0") ELSE ns>>
       ELSE IF uClass = IPXE
       THEN <<"tftp://" \o IPPortString(tftp) \o "/" \o bin, tftp.IP>>
       ELSE <<bin, tftp.IP>>

\* A withNetboot that, for an architecture without a bootfile, leaves the
\* reply's file and siaddr as they were instead of the refusal values.
setNetworkBootOptsUnknownArchBare(hh, d, sc, m, n) ==
    LET one == setOpt54And60AndSNAME(d, ClassIdentifier(d), hh.Netboot.IPXEBinServerTFTP.IP,
                                     ParseIP(URLHost(hh.Netboot.IPXEBinServerHTTP)))
        d1 == [one[1] EXCEPT !.BootFileName = "/netboot-not-allowed",
                             !.ServerIPAddr = IPv4zero]
        a == arch(m)
        uClass == GetString(m.Options, OptionUserClassInformation)
        ipxeScript == IF n.IPXEScriptURL # NilURL THEN n.IPXEScriptURL
                      ELSE hh.Netboot.IPXEScriptURL
        bn == bootfileAndNextServer(hh, sc, uClass, one[2], ArchToBootFile[a],
                                    hh.Netboot.IPXEBinServerTFTP,
                                    hh.Netboot.IPXEBinServerHTTP, ipxeScript)
        base == UpdateOption(UpdateOption(NoOptions, 6, <<8>>), 69, TraceparentFromContext(sc))
        pxe == IF IsRPI(m.ClientHWAddr) THEN AddVendorOpts(base) ELSE base
    IN IF ~n.AllowNetboot THEN d1
       ELSE IF a \notin DOMAIN ArchToBootFile THEN one[1]
       ELSE WithGeneric([d1 EXCEPT !.BootFileName = bn[1], !.ServerIPAddr = bn[2]],
                        OptionVendorSpecificInformation, OptionsToBytes(pxe))

\* proxy.Handler.setNetworkBootOpts: the modifier withNetboot. It reads the
\* class identifier of d, the reply being built, and m is the request.
setNetworkBootOpts(hh, d, sc, m, n) ==
    LET one == setOpt54And60AndSNAME(d, ClassIdentifier(d), hh.Netboot.IPXEBinServerTFTP.IP,
                                     ParseIP(URLHost(hh.Netboot.IPXEBinServerHTTP)))
        d1 == [one[1] EXCEPT !.BootFileName = "/netboot-not-allowed",
                             !.ServerIPAddr = IPv4zero]
        a == arch(m)
        uClass == GetString(m.Options, OptionUserClassInformation)
        ipxeScript == IF n.IPXEScriptURL # NilURL THEN n.IPXEScriptURL
                      ELSE hh.Netboot.IPXEScriptURL
        bn == bootfileAndNextServer(hh, sc, uClass, one[2], ArchToBootFile[a],
                                    hh.Netboot.IPXEBinServerTFTP,
                                    hh.Netboot.IPXEBinServerHTTP, ipxeScript)
        base == UpdateOption(UpdateOption(NoOptions, 6, <<8>>), 69, TraceparentFromContext(sc))
        pxe == IF IsRPI(m.ClientHWAddr) THEN AddVendorOpts(base) ELSE base
    IN IF ~n.AllowNetboot THEN d1
       ELSE IF a \notin DOMAIN ArchToBootFile THEN d1
       ELSE WithGeneric([d1 EXCEPT !.BootFileName = bn[1], !.ServerIPAddr = bn[2]],
                        OptionVendorSpecificInformation, OptionsToBytes(pxe))

\* A proxy updateMsg that also hands out a lease time and the server's own
\* address as yiaddr.
proxyUpdateMsgWithLease(hh, sc, pkt, n, msgType) ==
    LET r0 == WithReply(New, pkt)
        r1 == WithGeneric(WithMessageType(r0, msgType), OptionServerIdentifier, hh.IPAddr)
        r2 == WithLeaseTime(WithYourIP(WithServerIP(r1, hh.IPAddr), hh.IPAddr), 3600)
    IN setOpt97(setNetworkBootOpts(hh, r2, sc, pkt, n),
                GetBytes(pkt.Options, OptionClientMachineIdentifier))

\* proxy.Handler.updateMsg: NewReplyFromRequest(pkt, mods...).
proxyUpdateMsg(hh, sc, pkt, n, msgType) ==
    LET r0 == WithReply(New, pkt)
        r1 == WithGeneric(WithMessageType(r0, msgType), OptionServerIdentifier, hh.IPAddr)
        r2 == WithServerIP(r1, hh.IPAddr)
    IN setOpt97(setNetworkBootOpts(hh, r2, sc, pkt, n),
                GetBytes(pkt.Options, OptionClientMachineIdentifier))

\* A handleMsg that does not look at the record's AllowNetboot.
handleMsgWithoutAllow(hh, in, mt) ==
    LET ans == readBackend(hh, in.answer) IN
    IF ~hh.Netboot.Enabled THEN [err |-> "serving netboot clients is not enabled"]
    ELSE IF ans.err # "" THEN [err |-> ans.err]
    ELSE IF isNetbootClient(in.pkt) # "" THEN [err |-> isNetbootClient(in.pkt)]
    ELSE [err |-> "",
          reply |-> IF in.buildErr THEN NilPacket
                    ELSE proxyUpdateMsg(hh, in.sc, in.pkt, ans.n, mt)]

\* proxy.Handler.handleMsg: the reply, or the error that stops the handler.
handleMsg(hh, in, mt) ==
    LET ans == readBackend(hh, in.answer) IN
    IF ~hh.Netboot.Enabled THEN [err |-> "serving netboot clients is not enabled"]
    ELSE IF ans.err # "" THEN [err |-> ans.err]
    ELSE IF ans.n.AllowNetboot
    THEN (IF isNetbootClient(in.pkt) # "" THEN [err |-> isNetbootClient(in.pkt)]
          ELSE [err |-> "",
                reply |-> IF in.buildErr THEN NilPacket
                          ELSE proxyUpdateMsg(hh, in.sc, in.pkt, ans.n, mt)])
    ELSE [err |-> "client is not allowed to netboot"]

\* What one call of proxy.Handler.Handle does: the datagrams it hands to
\* conn.WriteTo and the status it leaves on its span.
proxyHandle(hh, in) ==
    LET mt == MessageType(in.pkt)
        res == handleMsg(hh, in, IF mt = DISCOVER THEN OFFER ELSE ACK)
    IN IF in.pkt = NilPacket THEN [sent |-> <<>>, span |-> "Unset", panic |-> FALSE]
       ELSE IF mt = DISCOVER /\ res.err # ""
       THEN [sent |-> <<>>, span |-> "Unset", panic |-> FALSE]
       ELSE IF mt = REQUEST /\ res.err # ""
       THEN [sent |-> <<>>, span |-> "Error", panic |-> FALSE]
       ELSE IF mt = RELEASE THEN [sent |-> <<>>, span |-> "Ok", panic |-> FALSE]
       ELSE IF mt \notin {DISCOVER, REQUEST}
       THEN [sent |-> <<>>, span |-> "Error", panic |-> FALSE]
       ELSE IF res.reply = NilPacket THEN ToBytesOfNil
       ELSE [sent |-> <<[b |-> res.reply, addr |-> in.peer]>>,
             span |-> IF in.writeErr THEN "Error" ELSE "Ok", panic |-> FALSE]

(***************************************************************************)
(* Package netboot: BootfileAndNextServer over a netip.AddrPort.           *)
(***************************************************************************)

\* What a call gave back: its results, or the run-time panic that ended it.
Return(bootfile, nextServer) ==
    [kind |-> "return", bootfile |-> bootfile, nextServer |-> nextServer]
ReturnErr(err) == [kind |-> "return", err |-> err]
Panic == [kind |-> "panic", msg |-> "invalid memory address or nil pointer dereference"]

\* netip.AddrPort.String; the zero AddrPort holds no address.
AddrPortString(a) == IF a.IP = NilIP THEN "invalid AddrPort" ELSE IPPortString(a)

\* A binary name that never gets the traceparent suffix.
binNeverSuffixed(sc, bin0, otelEnabled) == bin0

\* BootfileAndNextServer's first step: bin, with "-<traceparent>" appended
\* when otelEnabled and the context has a traceparent.
binWithTraceparent(sc, bin0, otelEnabled) ==
    LET tp == TraceparentStringFromContext(sc)
    IN IF otelEnabled /\ tp # "" THEN bin0 \o "-" \o tp ELSE bin0

\* A next server parsed from the whole host text, port included.
httpNextServerKeepsPort(ipxe) ==
    LET ns == ParseIP(URLHost(ipxe)) IN IF ns = NilIP THEN ParseIP("0.0.0.0") ELSE ns

\* The HTTPClient case's next server: the host of ipxe without its port,
\* parsed as an IP, or 0.0.0.0.
httpNextServer(ipxe) ==
    LET ns == ParseIP(SplitHead(URLHost(ipxe), ":"))
    IN IF ns = NilIP THEN ParseIP("0.0.0.0") ELSE ns

\* The case expression that gets a client out of an iPXE boot loop.
loopBreaking(pktUserClass, customUserClass) ==
    pktUserClass = Tinkerbell \/ (customUserClass # "" /\ pktUserClass = customUserClass)

\* A switch that tests the client type before the user class.
NetbootBootfileAndNextServerHTTPFirst(sc, pktUserClass, customUserClass, opt60, bin0, tftp, ipxe, iscript, otelEnabled) ==
    LET bin == binWithTraceparent(sc, bin0, otelEnabled)
        nextServer == tftp.IP
        script == IF iscript # NilURL THEN URLString(iscript) ELSE "/no-ipxe-script-defined"
        ns == ParseIP(SplitHead(URLHost(iscript), ":"))
    IN IF opt60 = HTTPClient
       THEN (IF ipxe = NilURL THEN Panic
             ELSE Return(URLString(ipxe) \o "/" \o bin, httpNextServer(ipxe)))
       ELSE IF loopBreaking(pktUserClass, customUserClass)
       THEN (IF Len(nextServer) = 0 \/ IsUnspecified(nextServer)
             THEN (IF iscript = NilURL THEN Panic
                   ELSE Return(script, IF ns = NilIP THEN ParseIP("127.0.0.1") ELSE ns))
             ELSE Return(script, nextServer))
       ELSE IF pktUserClass = IPXE
       THEN Return("tftp://" \o AddrPortString(tftp) \o "/" \o bin, nextServer)
       ELSE Return(bin, nextServer)

\* netboot.BootfileAndNextServer. In the loop-breaking case iscript.Host is
\* read without a nil check, and ipxe.Host likewise in the HTTPClient case.
NetbootBootfileAndNextServer(sc, pktUserClass, customUserClass, opt60, bin0, tftp, ipxe, iscript, otelEnabled) ==
    LET bin == binWithTraceparent(sc, bin0, otelEnabled)
        nextServer == tftp.IP
        script == IF iscript # NilURL THEN URLString(iscript) ELSE "/no-ipxe-script-defined"
        ns == ParseIP(SplitHead(URLHost(iscript), ":"))
    IN IF loopBreaking(pktUserClass, customUserClass)
       THEN (IF Len(nextServer) = 0 \/ IsUnspecified(nextServer)
             THEN (IF iscript = NilURL THEN Panic
                   ELSE Return(script, IF ns = NilIP THEN ParseIP("127.0.0.1") ELSE ns))
             ELSE Return(script, nextServer))
       ELSE IF opt60 = HTTPClient
       THEN (IF ipxe = NilURL THEN Panic
             ELSE Return(URLString(ipxe) \o "/" \o bin, httpNextServer(ipxe)))
       ELSE IF pktUserClass = IPXE
       THEN Return("tftp://" \o AddrPortString(tftp) \o "/" \o bin, nextServer)
       ELSE Return(bin, nextServer)

(***************************************************************************)
(* The handlers, packets and backend answers the handler model runs on.    *)
(***************************************************************************)

TFTPAddr == IPPort(<<192, 168, 2, 1>>, 69)
HTTPByIP == URL("http", "192.168.2.2:8080", "")
HTTPByName == URL("http", "boot.example", "/ipxe")
ScriptURL == URL("http", "192.168.2.4", "/auto.ipxe")
HostScriptURL == URL("https", "boot.example", "/host.ipxe")
ServerIP == <<192, 168, 2, 5>>
CustomUserClass == "custom"

NetbootConf(enabled, userClass, http, script) ==
    [Enabled |-> enabled, UserClass |-> userClass, IPXEBinServerTFTP |-> TFTPAddr,
     IPXEBinServerHTTP |-> http, IPXEScriptURL |-> script]

\* A reservation.Handler value.
ReservationHandler(backend, enabled, dhcpEnabled, otel, userClass, http, script) ==
    [kind |-> "reservation", Backend |-> backend, IPAddr |-> ServerIP,
     Netboot |-> NetbootConf(enabled, userClass, http, script),
     DHCPEnabled |-> dhcpEnabled, OTELEnabled |-> otel]

\* A proxy.Handler value.
ProxyHandler(backend, enabled, otel, userClass, http, script) ==
    [kind |-> "proxy", Backend |-> backend, IPAddr |-> ServerIP,
     Netboot |-> NetbootConf(enabled, userClass, http, script), OTELEnabled |-> otel]

HandlerConfigs ==
    {ReservationHandler("file", e, de, FALSE, "", HTTPByIP, NilURL) : e, de \in BOOLEAN}
    \cup {ReservationHandler("file", TRUE, TRUE, TRUE, CustomUserClass, HTTPByName, ScriptURL),
          ReservationHandler("nil", TRUE, TRUE, FALSE, "", HTTPByIP, NilURL)}
    \cup {ProxyHandler("file", e, FALSE, "", HTTPByIP, NilURL) : e \in BOOLEAN}
    \cup {ProxyHandler("file", TRUE, TRUE, CustomUserClass, HTTPByName, ScriptURL),
          ProxyHandler("nil", TRUE, FALSE, "", HTTPByIP, NilURL)}

PlainMAC == <<2, 0, 0, 0, 0, 1>>
PiMAC == <<220, 166, 50, 1, 2, 3>>
Peer == [IP |-> <<192, 168, 2, 77>>, Port |-> 68]

\* A received BOOTREQUEST with the given hardware address and options.
Packet(mac, opts) ==
    [OpCode |-> "BootRequest", TransactionID |-> 7, ClientHWAddr |-> mac,
     GatewayIPAddr |-> IPv4zero, Options |-> opts]

\* The option maps that hold code with one of values, or do not hold it.
Maybe(code, values) == {NoOptions} \cup {code :> v : v \in values}

\* Every union of one map of A with one map of B.
Both(A, B) == {a @@ b : a \in A, b \in B}

AllMessageTypes == {DISCOVER, OFFER, REQUEST, DECLINE, ACK, NAK, RELEASE, INFORM}

GUID == <<0, 1, 2, 3, 4, 5, 6, 7, 8, 9, 10, 11, 12, 13, 14, 15, 16>>
BadGUID == <<1, 1, 2, 3, 4, 5, 6, 7, 8, 9, 10, 11, 12, 13, 14, 15, 16>>
ShortGUID == <<0, 1, 2, 3, 4>>
NII == <<1, 2, 1>>
PXEClassID == "PXEClient:Arch:00007:UNDI:003001"
HTTPClassID == "HTTPClient:Arch:00016:UNDI:003001"

\* Packets of every message type, with every way of being or failing to be
\* a netboot client.
ClassifyPackets ==
    {Packet(PlainMAC, o) :
        o \in Both(Maybe(OptionDHCPMessageType, AllMessageTypes),
              Both(Maybe(OptionClassIdentifier, {PXEClassID, HTTPClassID, "MSFT 5.0"}),
              Both(Maybe(OptionClientSystemArchitectureType, {<<7>>}),
              Both(Maybe(OptionClientNetworkInterfaceIdentifier, {NII}),
                   Maybe(OptionClientMachineIdentifier, {GUID, BadGUID, ShortGUID})))))}

\* DISCOVERs and REQUESTs of netboot clients: user classes, architectures
\* (supported, named but unsupported, unnamed), hardware addresses.
NetbootPackets ==
    {Packet(mac, (OptionClientNetworkInterfaceIdentifier :> NII) @@ o) :
        mac \in {PlainMAC, PiMAC},
        o \in Both({OptionDHCPMessageType :> m : m \in {DISCOVER, REQUEST}},
              Both({OptionClassIdentifier :> c : c \in {PXEClassID, HTTPClassID}},
              Both(Maybe(OptionUserClassInformation, {IPXE, Tinkerbell, CustomUserClass}),
              Both({OptionClientSystemArchitectureType :> a :
                        a \in {<<0>>, <<16>>, <<22>>, <<99, 11>>}},
                   Maybe(OptionClientMachineIdentifier, {GUID})))))}

\* A data.DHCP record with every field set, and one with zero values only.
FullDHCP(mac) ==
    [MACAddress |-> mac, IPAddress |-> <<192, 168, 2, 100>>, SubnetMask |-> <<255, 255, 255, 0>>,
     DefaultGateway |-> <<192, 168, 2, 254>>, NameServers |-> <<<<1, 1, 1, 1>>>>,
     Hostname |-> "host1", DomainName |-> "example.org",
     BroadcastAddress |-> <<192, 168, 2, 255>>, NTPServers |-> <<<<192, 168, 2, 9>>>>,
     LeaseTime |-> 3600, DomainSearch |-> <<"example.org">>]

ZeroDHCP(mac) ==
    [MACAddress |-> mac, IPAddress |-> NilIP, SubnetMask |-> <<>>,
     DefaultGateway |-> NilIP, NameServers |-> <<>>, Hostname |-> "", DomainName |-> "",
     BroadcastAddress |-> NilIP, NTPServers |-> <<>>, LeaseTime |-> 0, DomainSearch |-> <<>>]

\* A data.Netboot record.
Netboot(allow, script, vlan) == [AllowNetboot |-> allow, IPXEScriptURL |-> script, VLAN |-> vlan]

\* BackendReader.Read answering with a record, and with an error.
Found(d, n) == [err |-> "", d |-> d, n |-> n]
NotFound == [err |-> "record not found"]
BackendError == [err |-> "backend unreachable"]

NoTrace == SpanContext([i \in 1..16 |-> 0], [i \in 1..8 |-> 0], FALSE)
SampledTrace == SpanContext([i \in 1..16 |-> 16 + i], [i \in 1..8 |-> 160 + i], TRUE)

\* One delivery to Handle: the packet and peer, what the backend will answer,
\* the span context the tracer starts, whether conn.WriteTo fails, whether
\* dhcpv4.NewReplyFromRequest fails.
Call(pkt, answer, sc, writeErr) ==
    [pkt |-> pkt, peer |-> Peer, answer |-> answer, sc |-> sc, writeErr |-> writeErr,
     buildErr |-> FALSE]

\* The same delivery with NewReplyFromRequest returning an error.
FailedBuild(c) == [c EXCEPT !.buildErr = TRUE]

\* A hardware address no request of the model is sent from.
OtherMAC == <<2, 0, 0, 0, 0, 9>>

Calls ==
    {Call(p, a, NoTrace, w) :
        p \in ClassifyPackets, w \in BOOLEAN,
        a \in {NotFound, BackendError}
              \cup {Found(FullDHCP(PlainMAC), Netboot(allow, NilURL, "")) : allow \in BOOLEAN}}
    \cup {Call(p, Found(IF full THEN FullDHCP(p.ClientHWAddr) ELSE ZeroDHCP(p.ClientHWAddr), n),
               sc, FALSE) :
        p \in NetbootPackets, sc \in {NoTrace, SampledTrace}, full \in BOOLEAN,
        n \in {Netboot(FALSE, NilURL, ""), Netboot(TRUE, NilURL, ""),
               Netboot(TRUE, HostScriptURL, "16")}}
    \cup {Call(p, Found(FullDHCP(mac), Netboot(TRUE, NilURL, "")), NoTrace, FALSE) :
        p \in NetbootPackets, mac \in {OtherMAC, <<>>}}
    \cup {FailedBuild(Call(p, Found(FullDHCP(p.ClientHWAddr), Netboot(allow, NilURL, "")),
                           NoTrace, FALSE)) :
        p \in NetbootPackets, allow \in BOOLEAN}
    \cup {Call(NilPacket, NotFound, NoTrace, FALSE)}

(***************************************************************************)
(* The handler specification: a handler is constructed, a call is          *)
(* delivered to it, and Handle runs on that call.                          *)
(***************************************************************************)

\* ret while no netboot function has been called directly.
NotCalled == [kind |-> "none"]

\* No server is stored, the mutex is free and Shutdown has not been called.
ShutdownIdle ==
    /\ srv = "nil"
    /\ srvMu = ""
    /\ shutPc = "idle"
    /\ shutRet = [err |-> ""]

\* The Listener's variables while only a handler is exercised.
ListenerIdle ==
    /\ ShutdownIdle
    /\ handlers = <<>>
    /\ ctxDone = FALSE
    /\ conn = "nil"
    /\ servePc = "idle"
    /\ serveRet = [case |-> "", err |-> ""]
    /\ srvPc = "idle"
    /\ errCh = <<>>
    /\ received = 0
    /\ gor = <<>>

Init ==
    /\ h \in HandlerConfigs
    /\ call \in Calls
    /\ handled = FALSE
    /\ sent = <<>>
    /\ span = "Unset"
    /\ ret = NotCalled
    /\ ListenerIdle

\* reservation.Handler.Handle(conn, peer, pkt)
ReservationHandle ==
    /\ h.kind = "reservation"
    /\ h' = setDefaults(h)
    /\ handled' = TRUE
    /\ sent' = reservationHandle(h, call).sent
    /\ span' = reservationHandle(h, call).span
    /\ ret' = IF reservationHandle(h, call).panic THEN Panic ELSE ret
    /\ UNCHANGED <<call, lvars>>

\* proxy.Handler.Handle(conn, peer, pkt)
ProxyHandle ==
    /\ h.kind = "proxy"
    /\ h' = setDefaults(h)
    /\ handled' = TRUE
    /\ sent' = proxyHandle(h, call).sent
    /\ span' = proxyHandle(h, call).span
    /\ ret' = IF proxyHandle(h, call).panic THEN Panic ELSE ret
    /\ UNCHANGED <<call, lvars>>

Next == ReservationHandle \/ ProxyHandle

Spec == Init /\ [][Next]_vars

(***************************************************************************)
(* The function specification: one direct call of a netboot function, on   *)
(* arguments drawn from sets, and what it gave back.                       *)
(***************************************************************************)

ZeroAddrPort == IPPort(NilIP, 0)
UnspecifiedTFTP == IPPort(IPv4zero, 69)
ScriptByPort == URL("http", "192.168.2.4:8080", "/auto.ipxe")

\* Arguments of BootfileAndNextServer: every user class against every custom
\* class and client type, TFTP addresses set, zero and 0.0.0.0, HTTP and
\* script URLs with IP and named hosts, with and without a port.
BootCalls ==
    [fn : {"BootfileAndNextServer"},
     sc : {NoTrace, SampledTrace},
     pktUserClass : {"", IPXE, Tinkerbell, CustomUserClass},
     customUserClass : {"", CustomUserClass},
     opt60 : {PXEClient, HTTPClient},
     bin : {"undionly.kpxe", "snp.efi"},
     tftp : {TFTPAddr, ZeroAddrPort, UnspecifiedTFTP},
     ipxe : {HTTPByIP, HTTPByName},
     iscript : {NilURL, ScriptURL, ScriptByPort, HostScriptURL},
     otelEnabled : BOOLEAN]

\* Packets whose option 97 is present and empty.
EmptyGUIDPackets ==
    {Packet(PlainMAC, (OptionClientMachineIdentifier :> <<>>) @@ o) :
        o \in Both(Maybe(OptionDHCPMessageType, {DISCOVER, REQUEST, INFORM}),
              Both(Maybe(OptionClassIdentifier, {PXEClassID, HTTPClassID, "MSFT 5.0"}),
              Both(Maybe(OptionClientSystemArchitectureType, {<<7>>}),
                   Maybe(OptionClientNetworkInterfaceIdentifier, {NII}))))}

\* Arguments of IsNetbootClient and of proxy's isNetbootClient.
ClassifyCalls ==
    [fn : {"IsNetbootClient", "isNetbootClient"},
     pkt : ClassifyPackets \cup EmptyGUIDPackets]

\* Arguments of the lookup in ArchToBootFile: every one-byte architecture.
ArchCalls == [fn : {"ArchToBootFile"}, arch : 0..255]

\* A Raspberry Pi's request that carries no option 93.
PiWithoutArch ==
    Packet(PiMAC, (OptionDHCPMessageType :> DISCOVER) @@ (OptionClassIdentifier :> PXEClassID))

\* Arguments of GetArch.
GetArchCalls == [fn : {"GetArch"}, pkt : NetbootPackets \cup {PiWithoutArch}]

\* The span context of TestTraceparentFromContext, and one of bytes above 127.
TestTrace == SpanContext(<<1, 2, 3, 4>> \o [i \in 1..12 |-> 0], <<5, 6, 7, 8, 0, 0, 0, 0>>, TRUE)
HighTrace == SpanContext([i \in 1..16 |-> 255], [i \in 1..8 |-> 128], FALSE)

\* Arguments of TraceparentFromContext: the span contexts above, each with
\* either sampled flag.
TraceCalls ==
    [fn : {"TraceparentFromContext"},
     sc : {SpanContext(t.TraceID, t.SpanID, s) :
              t \in {NoTrace, SampledTrace, TestTrace, HighTrace}, s \in BOOLEAN}]

\* Arguments of ToDHCPMods: records with each field zero or set.
RecordCalls ==
    [fn : {"ToDHCPMods"},
     d : [MACAddress : {PlainMAC},
          IPAddress : {NilIP, <<192, 168, 2, 100>>},
          SubnetMask : {<<>>, <<255, 255, 255, 0>>},
          DefaultGateway : {NilIP, <<192, 168, 2, 254>>},
          NameServers : {<<>>, <<<<1, 1, 1, 1>>>>},
          Hostname : {"", "host1"},
          DomainName : {"", "example.org"},
          BroadcastAddress : {NilIP, <<192, 168, 2, 255>>},
          NTPServers : {<<>>, <<<<192, 168, 2, 9>>>>},
          LeaseTime : {0, 3600},
          DomainSearch : {<<>>, <<"example.org">>}]]

\* What a backend's Read returns: a *data.DHCP and a *data.Netboot, each nil
\* (the empty tuple) or pointing at one record, and an error ("" is nil).
ReadResult(d, n, err) == [d |-> d, n |-> n, err |-> err]

\* The noop backend's Read.
noopRead == ReadResult(<<>>, <<>>, NoopRead.err)

\* translate of the nats backend: nil when ip_address does not parse, else a
\* record of the address, the mask's text as bytes and the lease time.
natsTranslate(m) ==
    IF ParseIP(m.IPAddress) = NilIP THEN <<>>
    ELSE <<[IPAddress |-> ParseIP(m.IPAddress), SubnetMask |-> m.SubnetMask,
            LeaseTime |-> m.LeaseTime]>>

\* Conn.Read of the nats backend, given whether the connection and the
\* request succeed, whether the reply is JSON, and the message it decodes to.
natsRead(in) ==
    IF in.connectErr THEN ReadResult(<<>>, <<>>, "nats: no servers available for connection")
    ELSE IF in.requestErr THEN ReadResult(<<>>, <<>>, "nats: timeout")
    ELSE IF ~in.json THEN ReadResult(<<>>, <<>>, "invalid character")
    ELSE ReadResult(natsTranslate(in.msg), <<[AllowNetboot |-> FALSE, IPXEScriptURL |-> NilURL, VLAN |-> ""]>>, "")

\* Watcher.translate of the file backend for the fields that can fail: the
\* address and the mask are required, a script URL must parse when given.
fileTranslate(r) ==
    IF ParseIP(r.IPAddress) = NilIP THEN ReadResult(<<>>, <<>>, "failed to parse IP from File")
    ELSE IF ParseIP(r.SubnetMask) = NilIP
    THEN ReadResult(<<>>, <<>>, "failed to parse subnet mask from File")
    ELSE IF r.IPXEScriptURL # "" /\ HasPrefix(r.IPXEScriptURL, ":")
    THEN ReadResult(<<>>, <<>>, "failed to parse URL")
    ELSE ReadResult(<<[MACAddress |-> r.MACAddress, IPAddress |-> ParseIP(r.IPAddress),
                       SubnetMask |-> ParseIP(r.SubnetMask), LeaseTime |-> r.LeaseTime]>>,
                    <<[AllowNetboot |-> r.AllowPXE,
                       IPXEScriptURL |-> IF r.IPXEScriptURL = "" THEN NilURL
                                         ELSE <<r.IPXEScriptURL>>,
                       VLAN |-> r.VLAN]>>, "")

\* Watcher.Read of the file backend, given whether the file is YAML, whether
\* it holds a record for the address, and that record.
fileRead(in) ==
    IF ~in.yaml THEN ReadResult(<<>>, <<>>, "invalid file format")
    ELSE IF ~in.found THEN ReadResult(<<>>, <<>>, "record not found")
    ELSE fileTranslate([in.rec EXCEPT !.MACAddress = in.mac])

\* Read of each backend: the noop backend; the nats backend with each failure
\* and with replies whose ip_address is an address, empty and not an address;
\* the file backend the same way.
ReadCalls ==
    [fn : {"Read"}, backend : {"noop"}, mac : {PlainMAC}]
    \cup [fn : {"Read"}, backend : {"nats"}, mac : {PlainMAC, OtherMAC},
          connectErr : BOOLEAN, requestErr : BOOLEAN, json : BOOLEAN,
          msg : [IPAddress : {"192.168.2.150", "", "192.168.2"},
                 SubnetMask : {"255.255.255.0", ""}, LeaseTime : {0, 3600}]]
    \cup [fn : {"Read"}, backend : {"file"}, mac : {PlainMAC, OtherMAC},
          yaml : BOOLEAN, found : BOOLEAN,
          rec : [MACAddress : {<<>>}, IPAddress : {"192.168.2.150", "192.168.2"},
                 SubnetMask : {"255.255.255.0", ""}, LeaseTime : {0, 3600},
                 AllowPXE : BOOLEAN, IPXEScriptURL : {"", "http://boots/auto.ipxe", ":boots"},
                 VLAN : {""}]]

\* netaddr.IPPort.IsZero and netip.AddrPort.IsValid
IsZero(a) == a = ZeroAddrPort
IsValid(a) == a.IP # NilIP

\* The address ListenAndServe merges in for an unset Addr.
DefaultAddr == IPPort(IPv4zero, 67)

\* Listener.Transformer of the context-based Listener: src replaces a zero
\* dst.
TransformerIsZero(dst, src) == IF IsZero(dst) THEN src ELSE dst

\* Listener.Transformer of the Shutdown-based Listener: src replaces a valid
\* dst.
TransformerIsValid(dst, src) == IF IsValid(dst) THEN src ELSE dst

\* server4.NewIPv4UDPConn binds the address's four bytes, none for a nil IP,
\* and its port.
NewIPv4UDPConnBind(addr) == IPPort(IF addr.IP = NilIP THEN IPv4zero ELSE addr.IP, addr.Port)

\* The address ListenAndServe binds: l.Addr merged with the defaults by the
\* Listener's Transformer, then handed to NewIPv4UDPConn.
ListenAndServeBind(version, addr) ==
    LET merged == IF version = "context" THEN TransformerIsZero(addr, DefaultAddr)
                  ELSE TransformerIsValid(addr, DefaultAddr)
    IN NewIPv4UDPConnBind(IPPort(merged.IP, merged.Port))

\* ListenAndServe of either Listener, with Addr unset, the default, an
\* address on port 67 and one on another port.
BindCalls ==
    [fn : {"ListenAndServeBind"}, version : {"context", "shutdown"},
     addr : {ZeroAddrPort, DefaultAddr, IPPort(<<192, 168, 2, 225>>, 67),
             IPPort(<<192, 168, 2, 225>>, 6767)}]

FnInit ==
    /\ call \in BootCalls \cup ClassifyCalls \cup ArchCalls \cup GetArchCalls \cup TraceCalls
                \cup RecordCalls \cup BindCalls \cup ReadCalls
    /\ ret = NotCalled
    /\ h = <<>>
    /\ handled = FALSE
    /\ sent = <<>>
    /\ span = "Unset"
    /\ ListenerIdle

\* netboot.BootfileAndNextServer(ctx, ...)
CallBootfileAndNextServer ==
    /\ call.fn = "BootfileAndNextServer"
    /\ ret = NotCalled
    /\ ret' = NetbootBootfileAndNextServer(call.sc, call.pktUserClass, call.customUserClass,
                                           call.opt60, call.bin, call.tftp, call.ipxe,
                                           call.iscript, call.otelEnabled)
    /\ UNCHANGED <<h, call, handled, sent, span, lvars>>

\* netboot.IsNetbootClient(pkt)
CallIsNetbootClient ==
    /\ call.fn = "IsNetbootClient"
    /\ ret = NotCalled
    /\ ret' = ReturnErr(IsNetbootClient(call.pkt))
    /\ UNCHANGED <<h, call, handled, sent, span, lvars>>

\* proxy.Handler.isNetbootClient(pkt)
CallProxyIsNetbootClient ==
    /\ call.fn = "isNetbootClient"
    /\ ret = NotCalled
    /\ ret' = ReturnErr(isNetbootClient(call.pkt))
    /\ UNCHANGED <<h, call, handled, sent, span, lvars>>

\* bin, found := ArchToBootFile[a]
CallArchToBootFile ==
    /\ call.fn = "ArchToBootFile"
    /\ ret = NotCalled
    /\ ret' = IF call.arch \in DOMAIN ArchToBootFile
              THEN [kind |-> "return", bin |-> ArchToBootFile[call.arch], found |-> TRUE]
              ELSE [kind |-> "return", bin |-> "", found |-> FALSE]
    /\ UNCHANGED <<h, call, handled, sent, span, lvars>>

\* option.GetArch(pkt)
CallGetArch ==
    /\ call.fn = "GetArch"
    /\ ret = NotCalled
    /\ ret' = [kind |-> "return", arch |-> GetArch(call.pkt)]
    /\ UNCHANGED <<h, call, handled, sent, span, lvars>>

\* netboot.TraceparentFromContext(ctx)
CallTraceparentFromContext ==
    /\ call.fn = "TraceparentFromContext"
    /\ ret = NotCalled
    /\ ret' = [kind |-> "return", bytes |-> TraceparentFromContext(call.sc)]
    /\ UNCHANGED <<h, call, handled, sent, span, lvars>>

\* dhcpv4.New(d.ToDHCPMods()...)
CallToDHCPMods ==
    /\ call.fn = "ToDHCPMods"
    /\ ret = NotCalled
    /\ ret' = [kind |-> "return", d |-> ToDHCPMods(call.d, New)]
    /\ UNCHANGED <<h, call, handled, sent, span, lvars>>

\* Listener.ListenAndServe up to the bind of its socket.
CallListenAndServeBind ==
    /\ call.fn = "ListenAndServeBind"
    /\ ret = NotCalled
    /\ ret' = [kind |-> "return", bound |-> ListenAndServeBind(call.version, call.addr)]
    /\ UNCHANGED <<h, call, handled, sent, span, lvars>>

\* Backend.Read(ctx, mac)
CallRead ==
    /\ call.fn = "Read"
    /\ ret = NotCalled
    /\ ret' = (IF call.backend = "noop" THEN noopRead
               ELSE IF call.backend = "nats" THEN natsRead(call)
               ELSE fileRead(call))
    /\ UNCHANGED <<h, call, handled, sent, span, lvars>>

FnNext ==
    \/ CallToDHCPMods
    \/ CallBootfileAndNextServer
    \/ CallIsNetbootClient
    \/ CallProxyIsNetbootClient
    \/ CallArchToBootFile
    \/ CallGetArch
    \/ CallTraceparentFromContext
    \/ CallListenAndServeBind
    \/ CallRead

FnSpec == FnInit /\ [][FnNext]_vars

(***************************************************************************)
(* The Listener: Serve, the server4 receive loop it starts, and the        *)
(* goroutine that runs Listener.handler for each decoded packet.           *)
(***************************************************************************)

\* The most handlers registered, and the most datagrams read.
MaxHandlers == 2
MaxPackets == 2

\* The i-th handler a test registers.
Registered(i) == [Name |-> "handler" \o ToString(i)]

\* handler/noop.Handler, which Serve registers when there is no handler.
NoopHandler == [Name |-> "noop"]

\* The ways a Listener is started: Serve(ctx, c, h...) on a connection or on
\* nil, and ListenAndServe(ctx, h...), whose bind succeeds or fails.
ServeCalls ==
    [fn : {"Serve"},
     h : {[i \in 1..n |-> Registered(i)] : n \in 0..MaxHandlers},
     c : {"nil", "open"}]
    \cup [fn : {"ListenAndServe"},
          h : {[i \in 1..n |-> Registered(i)] : n \in 0..MaxHandlers},
          bindErr : BOOLEAN]

\* The package's Serve builds &Listener{handlers: h}; ListenAndServe is
\* called on a Listener that holds no handler and no connection yet.
ListenInit ==
    /\ call \in ServeCalls
    /\ ShutdownIdle
    /\ handlers = (IF call.fn = "Serve" THEN call.h ELSE <<>>)
    /\ conn = (IF call.fn = "Serve" THEN call.c ELSE "nil")
    /\ ctxDone = FALSE
    /\ servePc = "idle"
    /\ serveRet = [case |-> "", err |-> ""]
    /\ srvPc = "idle"
    /\ errCh = <<>>
    /\ received = 0
    /\ gor = <<>>
    /\ h = <<>>
    /\ handled = FALSE
    /\ sent = <<>>
    /\ span = "Unset"
    /\ ret = NotCalled

\* net.PacketConn.Close as dhcp.Close() reports it: nil the first time, an
\* error on a connection that is already closed.
CloseResult(c) == IF c = "open" THEN "nil" ELSE "use of closed network connection"

\* A Close that leaves the connection as it is.
CloseLeavesOpen(c) == c

\* The connection after server4.Server.Close, which closes it.
Close(c) == "closed"

\* A Serve that leaves an empty handler list empty.
withoutNoopDefault(hs) == hs

\* Serve's first statement: a Listener without handlers gets the noop one.
withNoopDefault(hs) == IF Len(hs) = 0 THEN Append(hs, NoopHandler) ELSE hs

\* ListenAndServe's first statements: the noop handler is appended when no
\* handler is given, and then l.handlers = h replaces the list.
listenAndServeHandlers(lh, hh) ==
    LET appended == IF Len(hh) = 0 THEN Append(lh, NoopHandler) ELSE lh
    IN hh

\* Listener.ListenAndServe: the handlers, the bind, and then Serve up to its
\* select; a bind that fails is returned before Serve is called.
ListenAndServeStart ==
    /\ servePc = "idle"
    /\ call.fn = "ListenAndServe"
    /\ IF call.bindErr
       THEN /\ handlers' = listenAndServeHandlers(handlers, call.h)
            /\ servePc' = "returned"
            /\ serveRet' = [case |-> "NewIPv4UDPConn", err |-> "failed to create udp connection"]
            /\ UNCHANGED <<conn, srvPc>>
       ELSE /\ handlers' = withNoopDefault(listenAndServeHandlers(handlers, call.h))
            /\ conn' = "open"
            /\ servePc' = "select"
            /\ srvPc' = "ReadFrom"
            /\ UNCHANGED serveRet
    /\ UNCHANGED <<ctxDone, errCh, received, gor, hvars, svars>>

\* Listener.Serve up to its select: the noop default, the nil-connection
\* check, the server and the goroutine that runs dhcp.Serve().
ServeStart ==
    /\ servePc = "idle"
    /\ call.fn = "Serve"
    /\ handlers' = withNoopDefault(handlers)
    /\ IF conn = "nil"
       THEN /\ servePc' = "returned"
            /\ serveRet' = [case |-> "c == nil", err |-> "no connection specified"]
            /\ srvPc' = srvPc
       ELSE /\ servePc' = "select"
            /\ serveRet' = serveRet
            /\ srvPc' = "ReadFrom"
    /\ UNCHANGED <<ctxDone, conn, errCh, received, gor, hvars, svars>>

\* The caller cancels the context.
Cancel ==
    /\ ~ctxDone
    /\ ctxDone' = TRUE
    /\ UNCHANGED <<handlers, conn, servePc, serveRet, srvPc, errCh, received, gor, hvars, svars>>

\* Serve's select takes "case <-ctx.Done()": return dhcp.Close().
SelectDone ==
    /\ servePc = "select"
    /\ ctxDone
    /\ serveRet' = [case |-> "<-ctx.Done()", err |-> CloseResult(conn)]
    /\ conn' = Close(conn)
    /\ servePc' = "returned"
    /\ UNCHANGED <<handlers, ctxDone, srvPc, errCh, received, gor, hvars, svars>>

\* Serve's select takes "case e := <-errCh": return e.
SelectErr ==
    /\ servePc = "select"
    /\ Len(errCh) > 0
    /\ serveRet' = [case |-> "<-errCh", err |-> Head(errCh)]
    /\ errCh' = Tail(errCh)
    /\ servePc' = "returned"
    /\ UNCHANGED <<handlers, ctxDone, conn, srvPc, received, gor, hvars, svars>>

\* server4's loop reads a datagram that decodes: go s.handler(conn, peer, m).
Receive ==
    /\ srvPc = "ReadFrom"
    /\ conn = "open"
    /\ received < MaxPackets
    /\ received' = received + 1
    /\ gor' = Append(gor, [i |-> 1, st |-> "range", log |-> <<>>, wrote |-> 0])
    /\ UNCHANGED <<handlers, ctxDone, conn, servePc, serveRet, srvPc, errCh, hvars, svars>>

\* server4's loop reads a datagram that does not decode: it is dropped.
ReceiveMalformed ==
    /\ srvPc = "ReadFrom"
    /\ conn = "open"
    /\ received < MaxPackets
    /\ received' = received + 1
    /\ UNCHANGED <<handlers, ctxDone, conn, servePc, serveRet, srvPc, errCh, gor, hvars, svars>>

\* conn.ReadFrom fails, as it must once the connection is closed: the loop
\* ends and server4.Serve's deferred Close is next.
ReadError ==
    /\ srvPc = "ReadFrom"
    /\ srvPc' = "Close"
    /\ UNCHANGED <<handlers, ctxDone, conn, servePc, serveRet, errCh, received, gor, hvars, svars>>

\* The read must fail: the connection is closed.
ReadClosed == ReadError /\ conn = "closed"

\* server4.Serve's "defer s.Close()".
DeferredClose ==
    /\ srvPc = "Close"
    /\ conn' = Close(conn)
    /\ srvPc' = "errCh<-"
    /\ UNCHANGED <<handlers, ctxDone, servePc, serveRet, errCh, received, gor, hvars, svars>>

\* The goroutine's "errCh <- err": the channel holds one error.
SendErr ==
    /\ srvPc = "errCh<-"
    /\ Len(errCh) < 1
    /\ errCh' = Append(errCh, "read error")
    /\ srvPc' = "done"
    /\ UNCHANGED <<handlers, ctxDone, conn, servePc, serveRet, received, gor, hvars, svars>>

\* A loop that steps over the handler after the one that returned.
RangeSkipsOne(i) == i + 2

\* The loop variable of "for _, h := range l.handlers" after handler i.
RangeNext(i) == i + 1

\* A dispatcher that starts each handler with "go" and moves on, whether or
\* not the handler it called has returned.
MovesOnWithoutReturn(g) == gor[g].st \in {"Handle", "blocked"}

\* Whether the h.Handle call packet g's goroutine is in can return.
HandleReturns(g) == gor[g].st = "Handle"

\* Whether packet g's goroutine is at the top of the range loop.
AtRange(g) == gor[g].st = "range"

\* Listener.handler calls h.Handle(conn, peer, pkt) on the next handler.
Invoke(g) ==
    /\ AtRange(g)
    /\ gor[g].i <= Len(handlers)
    /\ gor' = [gor EXCEPT ![g].st = "Handle",
                          ![g].log = Append(@, handlers[gor[g].i].Name)]
    /\ UNCHANGED <<handlers, ctxDone, conn, servePc, serveRet, srvPc, errCh, received, hvars, svars>>

\* The datagrams one Handle may hand to conn.WriteTo: the noop handler logs
\* and drops; a registered handler answers or does not.
HandleWrites(hd) == IF hd = NoopHandler THEN {0} ELSE {0, 1}

\* The handler's Handle returns, having written what it wrote, and the loop
\* moves on.
HandleReturn(g) ==
    /\ HandleReturns(g)
    /\ \E n \in HandleWrites(handlers[gor[g].i]) :
           gor' = [gor EXCEPT ![g].st = "range", ![g].i = RangeNext(@),
                              ![g].wrote = @ + n]
    /\ UNCHANGED <<handlers, ctxDone, conn, servePc, serveRet, srvPc, errCh, received, hvars, svars>>

\* The handler blocks for good in Backend.Read or conn.WriteTo.
HandleBlock(g) ==
    /\ gor[g].st = "Handle"
    /\ gor' = [gor EXCEPT ![g].st = "blocked"]
    /\ UNCHANGED <<handlers, ctxDone, conn, servePc, serveRet, srvPc, errCh, received, hvars, svars>>

\* The range loop is over: Listener.handler returns.
HandlerDone(g) ==
    /\ AtRange(g)
    /\ gor[g].i > Len(handlers)
    /\ gor' = [gor EXCEPT ![g].st = "returned"]
    /\ UNCHANGED <<handlers, ctxDone, conn, servePc, serveRet, srvPc, errCh, received, hvars, svars>>

Dispatch == \E g \in 1..Len(gor) : Invoke(g) \/ HandlerDone(g)

Handling == \E g \in 1..Len(gor) : HandleReturn(g) \/ HandleBlock(g)

ListenNext ==
    \/ ServeStart
    \/ ListenAndServeStart
    \/ Cancel
    \/ SelectDone
    \/ SelectErr
    \/ Receive
    \/ ReceiveMalformed
    \/ ReadError
    \/ DeferredClose
    \/ SendErr
    \/ Dispatch
    \/ Handling

ListenSpec == ListenInit /\ [][ListenNext]_vars

\* The Go scheduler runs every goroutine that can take a step: Serve at its
\* select, the server goroutine on a closed connection, at its deferred
\* Close and at its send, and each packet's goroutine at its range loop.
FairListenSpec ==
    /\ ListenSpec
    /\ WF_vars(SelectDone)
    /\ WF_vars(SelectErr)
    /\ WF_vars(ReadClosed)
    /\ WF_vars(DeferredClose)
    /\ WF_vars(SendErr)
    /\ \A g \in 1..MaxPackets : WF_vars(g <= Len(gor) /\ (Invoke(g) \/ HandlerDone(g)))

(***************************************************************************)
(* Properties of the Listener.                                             *)
(***************************************************************************)

\* The names of the first k registered handlers, in registration order.
FirstHandlers(k) == [j \in 1..k |-> handlers[j].Name]

\* C1: For every decoded datagram, the handlers invoked so far are the first
\* registered handlers, each once and in registration order, and when
\* Listener.handler returns, every registered handler has been invoked.
C1_EachHandlerOnceInOrder ==
    \A g \in 1..Len(gor) :
        /\ Len(gor[g].log) <= Len(handlers)
        /\ gor[g].log = FirstHandlers(Len(gor[g].log))
        /\ gor[g].st = "returned" => Len(gor[g].log) = Len(handlers)

\* C1 witness: a packet whose dispatch is over, with two handlers registered.
C1_Witness ==
    \E g \in 1..Len(gor) :
        gor[g].st = "returned" /\ Len(handlers) >= 2 /\ Len(gor[g].log) >= 2

\* C2 as stated: a handler that blocks for good does not keep the other
\* registered handlers from being invoked for the same packet.
C2_BlockedHandlerLeavesOthersInvoked ==
    \A g \in 1..MaxPackets :
        (g <= Len(gor) /\ gor[g].st = "blocked")
            ~> (g <= Len(gor) /\ Len(gor[g].log) = Len(handlers))

\* C2 amended: the handlers of one packet run one after the other in that
\* packet's goroutine, so once a handler has blocked for good no further
\* handler is ever invoked for that packet; other packets have their own
\* goroutine and are not held back.
C2_BlockedHandlerStopsItsPacket ==
    [][\A g \in 1..Len(gor) : gor[g].st = "blocked" => gor'[g] = gor[g]]_vars

\* C2 witness: the first packet is blocked in its first handler, a later
\* handler is registered, and the second packet has been fully dispatched.
C2_Witness ==
    /\ Len(gor) >= 2
    /\ gor[1].st = "blocked"
    /\ gor[1].i < Len(handlers)
    /\ gor[2].st = "returned"
    /\ Len(gor[2].log) = Len(handlers)

\* C3 as stated: when Serve returns because the context was cancelled, it
\* returns a cancellation error, never nil.
C3_CancelReturnsCancellationError ==
    (servePc = "returned" /\ serveRet.case = "<-ctx.Done()")
        => serveRet.err = "context canceled"

\* C4: Once the context is cancelled while Serve waits, the socket is
\* eventually closed and Serve eventually returns, whether or not another
\* datagram arrives.
C4_CancelClosesAndReturns ==
    (ctxDone /\ servePc = "select") ~> (servePc = "returned" /\ conn = "closed")

\* C4 witness: Serve has returned through its ctx.Done case with the socket
\* closed, and no datagram was ever read.
C4_Witness ==
    /\ ctxDone
    /\ servePc = "returned"
    /\ serveRet.case = "<-ctx.Done()"
    /\ conn = "closed"
    /\ received = 0

(***************************************************************************)
(* Properties of the Reservation and Proxy handlers.                       *)
(***************************************************************************)

\* Handle has run on a packet of one of the given message types.
HandledType(types) ==
    handled /\ call.pkt # NilPacket /\ MessageType(call.pkt) \in types

\* The backend answered the call with a record.
BackendFound == h.Backend # "noop" /\ call.answer.err = ""

\* The reply handed to conn.WriteTo (when there is exactly one).
Reply == sent[1].b

\* dhcpv4.NewReplyFromRequest did not fail in this call.
ReplyBuilt == ~call.buildErr

\* C5: For a packet whose type is neither DISCOVER nor REQUEST (RELEASE,
\* DECLINE, NAK, INFORM, any other type, or no type at all) neither handler
\* hands a datagram to conn.WriteTo.
C5_NoReplyToOtherTypes ==
    (handled /\ call.pkt # NilPacket /\ MessageType(call.pkt) \notin {DISCOVER, REQUEST})
        => sent = <<>>

\* C5 witness: a DECLINE from a netboot client with a record in the backend
\* has been handled by a Reservation handler that has netboot enabled.
C5_Witness ==
    /\ HandledType({DECLINE})
    /\ h.kind = "reservation"
    /\ h.Netboot.Enabled
    /\ BackendFound
    /\ Has(call.pkt.Options, OptionClientSystemArchitectureType)
    /\ sent = <<>>

\* C6: When the backend returns a record and the reply can be built, the
\* Reservation handler hands exactly one datagram to conn.WriteTo, addressed
\* to the peer: an OFFER for a DISCOVER and an ACK for a REQUEST.
C6_ReservationRepliesOnce ==
    (HandledType({DISCOVER, REQUEST}) /\ h.kind = "reservation" /\ BackendFound /\ ReplyBuilt)
        => /\ Len(sent) = 1
           /\ sent[1].addr = call.peer
           /\ Reply.Options[OptionDHCPMessageType]
                = (IF MessageType(call.pkt) = DISCOVER THEN OFFER ELSE ACK)

\* C6 witness: a REQUEST answered with one ACK.
C6_Witness ==
    /\ HandledType({REQUEST})
    /\ h.kind = "reservation"
    /\ BackendFound
    /\ Len(sent) = 1
    /\ Reply.Options[OptionDHCPMessageType] = ACK

\* C7: When the backend answers a DISCOVER or REQUEST with NotFound or any
\* other error, neither handler hands a datagram to conn.WriteTo.
C7_NoReplyOnBackendError ==
    (HandledType({DISCOVER, REQUEST}) /\ ~BackendFound) => sent = <<>>

\* C7 witness: a DISCOVER of a netboot client, handled by a Proxy handler
\* with netboot enabled, for which the backend said NotFound.
C7_Witness ==
    /\ HandledType({DISCOVER})
    /\ h.kind = "proxy"
    /\ h.Netboot.Enabled
    /\ call.answer = NotFound
    /\ isNetbootClient(call.pkt) = ""
    /\ sent = <<>>

\* C8: The Proxy handler, when the reply can be built, hands a reply to
\* conn.WriteTo for a DISCOVER or REQUEST exactly when netboot is enabled,
\* the backend record allows netboot and the packet is a netboot client;
\* otherwise it writes nothing.
C8_ProxyRepliesIffEligible ==
    (HandledType({DISCOVER, REQUEST}) /\ h.kind = "proxy" /\ ReplyBuilt)
        => /\ Len(sent) <= 1
           /\ Len(sent) = 1 <=>
                /\ h.Netboot.Enabled
                /\ BackendFound
                /\ call.answer.n.AllowNetboot
                /\ isNetbootClient(call.pkt) = ""

\* C8 witness: the Proxy handler has replied to a netboot client.
C8_Witness ==
    /\ HandledType({DISCOVER, REQUEST})
    /\ h.kind = "proxy"
    /\ Len(sent) = 1
    /\ call.answer.n.AllowNetboot

\* The Reservation handler has replied to the call.
ReservationReplied ==
    HandledType({DISCOVER, REQUEST}) /\ h.kind = "reservation" /\ Len(sent) = 1

\* Netboot is enabled, the record allows it, the packet is a netboot client.
Eligible ==
    h.Netboot.Enabled /\ call.answer.n.AllowNetboot /\ IsNetbootClient(call.pkt) = ""

C10_NotAllowedSentinel ==
    (/\ ReservationReplied
     /\ h.Netboot.Enabled
     /\ ~call.answer.n.AllowNetboot
     /\ IsNetbootClient(call.pkt) = "")
        => (Reply.BootFileName = "/netboot-not-allowed" /\ Reply.ServerIPAddr = IPv4zero)

\* The options data.DHCP.ToDHCPMods can set: 1, 3, 6, 12, 15, 28, 42, 51, 119.
RecordOptions ==
    {OptionSubnetMask, OptionRouter, OptionDomainNameServer, OptionHostName,
     OptionDomainName, OptionBroadcastAddress, OptionNTPServers,
     OptionIPAddressLeaseTime, OptionDNSDomainSearchList}

\* The Proxy handler has replied to the call.
ProxyReplied == HandledType({DISCOVER, REQUEST}) /\ h.kind = "proxy" /\ Len(sent) = 1

\* C11 as stated: when an eligible packet's architecture has no entry in
\* ArchToBootFile, the Reservation reply is DHCP-only: no option 60, no
\* option 43, no bootfile and no next-server address.
C11_UnknownArchReplyIsDHCPOnly ==
    (ReservationReplied /\ Eligible /\ GetArch(call.pkt) \notin DOMAIN ArchToBootFile)
        => /\ ~Has(Reply.Options, OptionClassIdentifier)
           /\ ~Has(Reply.Options, OptionVendorSpecificInformation)
           /\ Reply.BootFileName = ""
           /\ Reply.ServerIPAddr = IPv4zero

\* C12: with DHCPEnabled false the Reservation handler still answers a
\* DISCOVER or REQUEST whose record the backend found (the reply being
\* built), and the reply has yiaddr 0.0.0.0 and none of the options 1, 3, 6,
\* 12, 15, 28, 42, 51, 119.
C12_NoRecordFieldsWhenDHCPDisabled ==
    (/\ HandledType({DISCOVER, REQUEST})
     /\ h.kind = "reservation"
     /\ BackendFound
     /\ ReplyBuilt
     /\ ~h.DHCPEnabled)
        => /\ Len(sent) = 1
           /\ Reply.YourIPAddr = IPv4zero
           /\ \A c \in RecordOptions : ~Has(Reply.Options, c)

\* C12 witness: a Reservation handler with DHCPEnabled false has answered a
\* client whose record has an address, a mask and a lease time.
C12_Witness ==
    /\ ReservationReplied
    /\ ~h.DHCPEnabled
    /\ call.answer.d.IPAddress # NilIP
    /\ Len(call.answer.d.SubnetMask) > 0
    /\ call.answer.d.LeaseTime > 0

\* C13: every reply of the Proxy handler has yiaddr 0.0.0.0 and none of the
\* address options, whatever the record the backend returned holds.
C13_ProxyAssignsNoAddress ==
    (handled /\ h.kind = "proxy")
        => \A i \in 1..Len(sent) :
              /\ sent[i].b.YourIPAddr = IPv4zero
              /\ \A c \in RecordOptions : ~Has(sent[i].b.Options, c)

\* C13 witness: the Proxy handler has replied to a client whose record
\* holds an address, a mask, a gateway and a lease time.
C13_Witness ==
    /\ ProxyReplied
    /\ call.answer.d.IPAddress # NilIP
    /\ call.answer.d.DefaultGateway # NilIP
    /\ call.answer.d.LeaseTime > 0

\* C14 as stated: option 97 of a Proxy reply is the received option 97 byte
\* for byte, and the reply has no option 97 when the received packet has none.
C14_Opt97Mirrored ==
    ProxyReplied
        => /\ Has(Reply.Options, OptionClientMachineIdentifier)
                <=> Has(call.pkt.Options, OptionClientMachineIdentifier)
           /\ GetBytes(Reply.Options, OptionClientMachineIdentifier)
                = GetBytes(call.pkt.Options, OptionClientMachineIdentifier)

\* C15 as stated: in a netboot reply of either handler option 60 is
\* "HTTPClient" when the received option 60 begins with "HTTPClient", and
\* "PXEClient" otherwise.
C15_Opt60EchoesClientType ==
    (ProxyReplied \/ (ReservationReplied /\ Eligible))
        => GetString(Reply.Options, OptionClassIdentifier)
             = (IF HasPrefix(ClassIdentifier(call.pkt), HTTPClient)
                THEN HTTPClient ELSE PXEClient)

\* A direct call of BootfileAndNextServer has returned.
BootReturned == call.fn = "BootfileAndNextServer" /\ ret.kind = "return"

\* The call's user class selects the loop-breaking case.
LoopBreakingCall == loopBreaking(call.pktUserClass, call.customUserClass)

\* The call's TFTP address is the zero AddrPort or 0.0.0.0.
TFTPUnspecified == call.tftp.IP = NilIP \/ call.tftp.IP = IPv4zero

\* The binary name the call's bootfile is built from.
CallBin == binWithTraceparent(call.sc, call.bin, call.otelEnabled)

\* strings.Split(u.Host, ":")[0], parsed as an IP.
HostIP(u) == ParseIP(SplitHead(URLHost(u), ":"))

\* strings.HasSuffix
HasSuffix(s, x) == Len(s) >= Len(x) /\ SubSeq(s, Len(s) - Len(x) + 1, Len(s)) = x

\* The conditions under which a packet is a netboot client.
NetbootClientConditions(pkt) ==
    LET guid == GetBytes(pkt.Options, OptionClientMachineIdentifier) IN
    /\ MessageType(pkt) \in {DISCOVER, REQUEST}
    /\ Has(pkt.Options, OptionClassIdentifier)
    /\ (HasPrefix(ClassIdentifier(pkt), PXEClient) \/ HasPrefix(ClassIdentifier(pkt), HTTPClient))
    /\ Has(pkt.Options, OptionClientSystemArchitectureType)
    /\ Has(pkt.Options, OptionClientNetworkInterfaceIdentifier)
    /\ (Len(guid) = 0 \/ (Len(guid) = 17 /\ guid[1] = 0))

\* C16: IsNetbootClient (and proxy's isNetbootClient) returns the nil error
\* exactly when the type is DISCOVER or REQUEST, option 60 is present and
\* begins with PXEClient or HTTPClient, options 93 and 94 are present, and
\* option 97 has length 0, or length 17 with first byte 0; otherwise it
\* returns an error.
C16_IsNetbootClientIffAllHold ==
    (call.fn \in {"IsNetbootClient", "isNetbootClient"} /\ ret # NotCalled)
        => /\ ret.kind = "return"
           /\ ret.err = "" <=> NetbootClientConditions(call.pkt)

\* C16 witness: IsNetbootClient has accepted a packet with a 17-byte
\* option 97.
C16_Witness ==
    /\ call.fn = "IsNetbootClient"
    /\ ret = ReturnErr("")
    /\ Len(GetBytes(call.pkt.Options, OptionClientMachineIdentifier)) = 17

\* C17: whenever BootfileAndNextServer returns, the bootfile is that of the
\* first matching rule in the order a, b, c, d: the script URL (or
\* "/no-ipxe-script-defined") for the user class Tinkerbell or the custom
\* one, even for an HTTPClient; else the HTTP URL for an HTTPClient, even
\* with the user class iPXE; else the tftp URL for iPXE; else the binary.
C17_FirstMatchingRule ==
    BootReturned
        => ret.bootfile =
             (IF LoopBreakingCall
              THEN (IF call.iscript # NilURL THEN URLString(call.iscript)
                    ELSE "/no-ipxe-script-defined")
              ELSE IF call.opt60 = HTTPClient
              THEN URLString(call.ipxe) \o "/" \o CallBin
              ELSE IF call.pktUserClass = IPXE
              THEN "tftp://" \o AddrPortString(call.tftp) \o "/" \o CallBin
              ELSE CallBin)

\* C17 witness: an HTTPClient with the user class Tinkerbell was given the
\* script URL.
C17_Witness ==
    /\ BootReturned
    /\ call.pktUserClass = Tinkerbell
    /\ call.opt60 = HTTPClient
    /\ call.iscript = ScriptURL
    /\ ret.bootfile = "http://192.168.2.4/auto.ipxe"

\* C18 as stated: in the loop-breaking case with an unspecified TFTP
\* address the call always returns, and the next server is the IP parsed
\* from the script URL's host, or 127.0.0.1 when the host is not an IP or
\* there is no script URL.
C18_LoopBreakNextServerFallback ==
    (call.fn = "BootfileAndNextServer" /\ ret # NotCalled
     /\ LoopBreakingCall /\ TFTPUnspecified)
        => /\ ret.kind = "return"
           /\ ret.nextServer =
                (IF call.iscript # NilURL /\ HostIP(call.iscript) # NilIP
                 THEN HostIP(call.iscript) ELSE <<127, 0, 0, 1>>)

C20_TraceparentSuffix ==
    (BootReturned /\ ~LoopBreakingCall)
        => LET tp == TraceparentStringFromContext(call.sc)
           IN IF call.otelEnabled /\ tp # ""
              THEN HasSuffix(ret.bootfile, call.bin \o "-" \o tp)
              ELSE HasSuffix(ret.bootfile, call.bin)

\* C20 witness: otelEnabled is true, the context has no traceparent, and
\* the bootfile is the unchanged binary name.
C20_Witness ==
    /\ BootReturned
    /\ call.otelEnabled
    /\ TraceparentStringFromContext(call.sc) = ""
    /\ call.pktUserClass = ""
    /\ call.opt60 = PXEClient
    /\ ret.bootfile = call.bin

(***************************************************************************)
(* Properties of the bootfile, the architecture table and option 43.       *)
(***************************************************************************)

\* A handler has answered an eligible call with a netboot reply: the
\* Reservation handler on an eligible call, or the Proxy handler at all.
NetbootReplied == (ReservationReplied /\ Eligible) \/ ProxyReplied

\* The architecture the replying handler reads from the request.
CallArch == IF h.kind = "proxy" THEN arch(call.pkt) ELSE GetArch(call.pkt)

\* The file names ArchToBootFile holds.
TableFiles == {ArchToBootFile[a] : a \in DOMAIN ArchToBootFile}

\* The bootfile starts with "/", "tftp://", "http://" or "https://".
HasBootScheme(s) == \E p \in {"/", "tftp://", "http://", "https://"} : HasPrefix(s, p)

\* C21 as stated: the bootfile of a netboot reply for a supported
\* architecture is non-empty and either starts with "/", "tftp://",
\* "http://" or "https://" or is a bare file name of the table.
C21_BootfileForm ==
    (NetbootReplied /\ CallArch \in DOMAIN ArchToBootFile)
        => /\ Reply.BootFileName # ""
           /\ (HasBootScheme(Reply.BootFileName) \/ Reply.BootFileName \in TableFiles)

\* C21: the bootfile of a netboot reply for a supported architecture is
\* non-empty and either starts with "/", "tftp://", "http://" or "https://",
\* or is a bare file name of the table, or, with OTELEnabled and a valid span
\* context, a file name of the table followed by "-" and the traceparent.
C21_BootfileFormOrSuffixed ==
    (NetbootReplied /\ CallArch \in DOMAIN ArchToBootFile)
        => /\ Reply.BootFileName # ""
           /\ \/ HasBootScheme(Reply.BootFileName)
              \/ Reply.BootFileName \in TableFiles
              \/ /\ h.OTELEnabled
                 /\ TraceparentStringFromContext(call.sc) # ""
                 /\ \E f \in TableFiles :
                        Reply.BootFileName = f \o "-" \o TraceparentStringFromContext(call.sc)

\* C21 witness: a plain PXE client of a traced call was given the table's
\* file name with the traceparent after it.
C21_Witness ==
    /\ ReservationReplied
    /\ Eligible
    /\ h.OTELEnabled
    /\ call.sc = SampledTrace
    /\ GetArch(call.pkt) = 0
    /\ Reply.BootFileName = "undionly.kpxe-" \o TraceparentStringFromContext(SampledTrace)

\* C22: the lookup in ArchToBootFile finds undionly.kpxe for the six legacy
\* BIOS architectures (0 to 5), ipxe.efi for the six x86 EFI architectures
\* (6, 7, 8, 9, 15, 16), snp.efi for the four ARM EFI architectures (10, 11,
\* 18, 19) and for 41, and finds nothing for every other value, 255 included.
C22_ClosedArchTable ==
    (call.fn = "ArchToBootFile" /\ ret.kind = "return")
        => IF call.arch \in 0..5 THEN ret.found /\ ret.bin = "undionly.kpxe"
           ELSE IF call.arch \in {6, 7, 8, 9, 15, 16} THEN ret.found /\ ret.bin = "ipxe.efi"
           ELSE IF call.arch \in {10, 11, 18, 19, 41} THEN ret.found /\ ret.bin = "snp.efi"
           ELSE ~ret.found /\ ret.bin = ""

\* C22 witness: architecture 255 was looked up and nothing was found.
C22_Witness ==
    /\ call.fn = "ArchToBootFile"
    /\ call.arch = ArchUnknown
    /\ ret.kind = "return"
    /\ ~ret.found

\* C23 as stated: for a hardware address that begins with a Raspberry Pi OUI
\* GetArch returns 41, whatever option 93 carries.
C23_PiMACGivesArch41 ==
    (call.fn = "GetArch" /\ ret.kind = "return" /\ isRPI(call.pkt.ClientHWAddr))
        => ret.arch = ArchRPI

\* The suboptions held in the bytes of an option 43: code, length, value.
RECURSIVE SubOptions(_)
SubOptions(b) ==
    IF Len(b) < 2 THEN NoOptions
    ELSE (b[1] :> SubSeq(b, 3, 2 + b[2])) @@ SubOptions(SubSeq(b, 3 + b[2], Len(b)))

\* The suboptions of the reply's option 43; none when it has no option 43.
ReplyOpt43 == SubOptions(GetBytes(Reply.Options, OptionVendorSpecificInformation))

\* C24 as stated: in a netboot reply to a hardware address with a Raspberry
\* Pi OUI option 43 holds suboption 9 = 00 00 11 "Raspberry Pi Boot" and
\* suboption 10 = 00 50 58 45; for any other address it holds neither.
C24_PiVendorSubOptions ==
    NetbootReplied
        => IF isRPI(call.pkt.ClientHWAddr)
           THEN /\ Has(ReplyOpt43, 9)
                /\ ReplyOpt43[9] = <<0, 0, 17, 82, 97, 115, 112, 98, 101, 114, 114, 121, 32,
                                     80, 105, 32, 66, 111, 111, 116>>
                /\ Has(ReplyOpt43, 10)
                /\ ReplyOpt43[10] = <<0, 80, 88, 69>>
           ELSE ~Has(ReplyOpt43, 9) /\ ~Has(ReplyOpt43, 10)

\* C25 as stated: option 43 of a netboot reply holds suboption 6 = 08 and a
\* suboption 69 of 26 bytes, and holds suboption 116 exactly when the
\* record's VLAN is not empty, its value then being that string.
C25_Opt43SubOptions ==
    NetbootReplied
        => /\ Has(ReplyOpt43, 6)
           /\ ReplyOpt43[6] = <<8>>
           /\ Has(ReplyOpt43, 69)
           /\ Len(ReplyOpt43[69]) = 26
           /\ Has(ReplyOpt43, 116) <=> call.answer.n.VLAN # ""
           /\ Has(ReplyOpt43, 116) => ReplyOpt43[116] = DigitBytes(call.answer.n.VLAN)

(***************************************************************************)
(* Properties of the traceparent encoder.                                  *)
(***************************************************************************)

\* Reading a binary traceparent back: bytes 2 to 17 are the trace id, 18 to
\* 25 the span id, and bit 0 of byte 26 the sampled flag.
DecodeTraceparent(b) == SpanContext(SubSeq(b, 2, 17), SubSeq(b, 18, 25), b[26] % 2 = 1)

\* C26: TraceparentFromContext returns 26 bytes: 0x00, the 16 bytes of the
\* trace id, the 8 bytes of the span id, and a flags byte that is 0x01 when
\* the span is sampled and 0x00 when it is not; read back, the bytes give the
\* same trace id, span id and sampled flag.
C26_TraceparentLayout ==
    (call.fn = "TraceparentFromContext" /\ ret.kind = "return")
        => /\ Len(ret.bytes) = 26
           /\ ret.bytes[1] = 0
           /\ SubSeq(ret.bytes, 2, 17) = call.sc.TraceID
           /\ SubSeq(ret.bytes, 18, 25) = call.sc.SpanID
           /\ ret.bytes[26] = (IF call.sc.Sampled THEN 1 ELSE 0)
           /\ DecodeTraceparent(ret.bytes) = call.sc

\* C26 witness: the sampled span context of the package's test was encoded
\* as the 26 bytes the test expects.
C26_Witness ==
    /\ call.fn = "TraceparentFromContext"
    /\ call.sc = TestTrace
    /\ ret.kind = "return"
    /\ ret.bytes = <<0, 1, 2, 3, 4, 0, 0, 0, 0, 0, 0, 0, 0, 0, 0, 0, 0,
                     5, 6, 7, 8, 0, 0, 0, 0, 1>>

(***************************************************************************)
(* Properties of the record's part in the reply.                           *)
(***************************************************************************)

\* The request's user class selects the loop-breaking case of the handler.
LoopBreakingRequest ==
    LET uClass == GetString(call.pkt.Options, OptionUserClassInformation)
    IN uClass = Tinkerbell \/ (h.Netboot.UserClass # "" /\ uClass = h.Netboot.UserClass)

\* C27: in the loop-breaking case the bootfile of a netboot reply is the
\* record's IPXEScriptURL when the record carries one; the handler's own
\* script URL is the bootfile only when the record carries none (and
\* "/no-ipxe-script-defined" when there is neither).
C27_RecordScriptOverrides ==
    (NetbootReplied /\ CallArch \in DOMAIN ArchToBootFile /\ LoopBreakingRequest)
        => Reply.BootFileName
             = (IF call.answer.n.IPXEScriptURL # NilURL
                THEN URLString(call.answer.n.IPXEScriptURL)
                ELSE IF h.Netboot.IPXEScriptURL # NilURL
                THEN URLString(h.Netboot.IPXEScriptURL)
                ELSE "/no-ipxe-script-defined")

\* C27 witness: the handler has a script URL of its own, the record carries
\* another, and the reply's bootfile is the record's.
C27_Witness ==
    /\ ReservationReplied
    /\ Eligible
    /\ LoopBreakingRequest
    /\ h.Netboot.IPXEScriptURL = ScriptURL
    /\ call.answer.n.IPXEScriptURL = HostScriptURL
    /\ Reply.BootFileName = "https://boot.example/host.ipxe"

\* C28 as stated: the reply a handler writes to a DISCOVER or REQUEST has
\* the request's hardware address as chaddr, whatever address the backend's
\* record carries.
C28_ReplyChaddrIsRequestMAC ==
    (ReservationReplied \/ ProxyReplied) => Reply.ClientHWAddr = call.pkt.ClientHWAddr

\* C29 as stated: for every field of the record that is zero or empty
\* ToDHCPMods leaves the header or option of that field out of the packet:
\* yiaddr, options 1, 3, 6, 119, 42, 28, 15, 12 and, for the lease time, 51.
C29_OnlyNonZeroFields ==
    (call.fn = "ToDHCPMods" /\ ret.kind = "return")
        => /\ call.d.IPAddress = NilIP => ret.d.YourIPAddr = IPv4zero
           /\ Len(call.d.SubnetMask) = 0 => ~Has(ret.d.Options, OptionSubnetMask)
           /\ call.d.DefaultGateway = NilIP => ~Has(ret.d.Options, OptionRouter)
           /\ Len(call.d.NameServers) = 0 => ~Has(ret.d.Options, OptionDomainNameServer)
           /\ Len(call.d.DomainSearch) = 0 => ~Has(ret.d.Options, OptionDNSDomainSearchList)
           /\ Len(call.d.NTPServers) = 0 => ~Has(ret.d.Options, OptionNTPServers)
           /\ call.d.BroadcastAddress = NilIP => ~Has(ret.d.Options, OptionBroadcastAddress)
           /\ call.d.DomainName = "" => ~Has(ret.d.Options, OptionDomainName)
           /\ call.d.Hostname = "" => ~Has(ret.d.Options, OptionHostName)
           /\ call.d.LeaseTime = 0 => ~Has(ret.d.Options, OptionIPAddressLeaseTime)

\* C30 as stated: when NewReplyFromRequest fails for a packet the handler
\* hands nothing to conn.WriteTo and returns; it does not panic.
C30_BuildFailureIsSilent ==
    (handled /\ call.buildErr) => sent = <<>> /\ ret.kind # "panic"

(***************************************************************************)
(* Properties of starting a Listener.                                      *)
(***************************************************************************)

\* C31: when Serve or ListenAndServe is started with no handler (and, for
\* ListenAndServe, the bind succeeds, so that Serve is reached) the Listener
\* holds exactly one handler, the noop handler, and from then on no datagram
\* is written for any packet that is received.
C31_NoopWhenNoHandlers ==
    (Len(call.h) = 0 /\ servePc # "idle" /\ serveRet.case # "NewIPv4UDPConn")
        => /\ handlers = <<NoopHandler>>
           /\ \A g \in 1..Len(gor) : gor[g].wrote = 0

\* C31 witness: ListenAndServe was called without handlers, a packet was
\* received and dispatched to the noop handler alone, and nothing was written.
C31_Witness ==
    /\ call.fn = "ListenAndServe"
    /\ Len(call.h) = 0
    /\ Len(gor) >= 1
    /\ gor[1].st = "returned"
    /\ gor[1].log = <<"noop">>
    /\ gor[1].wrote = 0

(***************************************************************************)
(* The relay: Config.handleFunc on one received packet.                    *)
(***************************************************************************)

OpcodeBootRequest == 1
OpcodeBootReply == 2

\* The header fields of a DHCPv4 packet the relay reads or writes.
RelayPacket(op, hops, gi, ci, bcast) ==
    [OpCode |-> op, HopCount |-> hops, Broadcast |-> bcast, ClientIPAddr |-> ci,
     GatewayIPAddr |-> gi]

\* DHCPv4.ToBytes on those fields: op, hops, the flags' first byte, ciaddr,
\* giaddr.
ToBytes(m) ==
    <<m.OpCode, m.HopCount, IF m.Broadcast THEN 128 ELSE 0>> \o m.ClientIPAddr
        \o m.GatewayIPAddr

\* dhcpv4.FromBytes: a new packet with the fields the bytes hold.
FromBytes(b) ==
    [OpCode |-> b[1], HopCount |-> b[2], Broadcast |-> b[3] >= 128,
     ClientIPAddr |-> SubSeq(b, 4, 7), GatewayIPAddr |-> SubSeq(b, 8, 11)]

\* relay.Config after ListenAndServe merged its defaults.
RelayConfig(listener, server, maxHops) ==
    [kind |-> "relay", Listener |-> listener, DHCPServer |-> server, MaxHops |-> maxHops]

\* Config.hopsValid
hopsValid(c, d) == IF d.HopCount > 16 THEN FALSE ELSE d.HopCount < c.MaxHops

\* Config.setGIADDR
setGIADDR(c, d) == [d EXCEPT !.GatewayIPAddr = c.Listener.IP]

\* Config.setCastType: SetUnicast, then SetBroadcast if giaddr or ciaddr is
\* zero.
setCastType(c, d) ==
    [d EXCEPT !.Broadcast = (d.GatewayIPAddr = IPv4zero \/ d.ClientIPAddr = IPv4zero)]

\* Config.setDest
setDest(c, d) ==
    IF d.GatewayIPAddr # IPv4zero /\ d.GatewayIPAddr # c.Listener.IP
    THEN IPPort(d.GatewayIPAddr, 67)
    ELSE IF d.ClientIPAddr # IPv4zero THEN IPPort(d.ClientIPAddr, 68)
    ELSE IPPort(<<255, 255, 255, 255>>, 68)

\* What one call of Config.handleFunc does: m, the received packet, after the
\* call, and the datagrams handed to conn.WriteTo. reply is parsed from m's
\* bytes before m.HopCount++.
handleFunc(c, m0) ==
    LET reply0 == FromBytes(ToBytes(m0))
        m == [m0 EXCEPT !.HopCount = (@ + 1) % 256]
        reply == [reply0 EXCEPT !.GatewayIPAddr = IPv4zero]
        relayed == m.GatewayIPAddr # IPv4zero /\ m.GatewayIPAddr # c.Listener.IP
        request == setGIADDR(c, [reply EXCEPT !.Broadcast = FALSE])
        cast == setCastType(c, reply)
    IN IF ~hopsValid(c, reply) THEN [m |-> m, sent |-> <<>>]
       ELSE IF reply.OpCode = OpcodeBootRequest
       THEN [m |-> m,
             sent |-> <<[b |-> request,
                         addr |-> IF relayed THEN IPPort(m.GatewayIPAddr, 67)
                                  ELSE c.DHCPServer]>>]
       ELSE IF reply.OpCode = OpcodeBootReply
       THEN (IF m.GatewayIPAddr # c.Listener.IP THEN [m |-> m, sent |-> <<>>]
             ELSE [m |-> m,
                   sent |-> <<[b |-> IF relayed THEN setGIADDR(c, cast) ELSE cast,
                               addr |-> setDest(c, m)]>>])
       ELSE [m |-> m, sent |-> <<>>]

\* The relay's address, the upstream server, another relay, a client.
RelayAddr == <<192, 168, 2, 10>>
UpstreamServer == IPPort(<<10, 0, 0, 5>>, 67)
OtherRelay == <<192, 168, 3, 1>>
ClientAddr == <<192, 168, 2, 50>>

\* Relays on an address and on 0.0.0.0, with the hop limits 4, 16 and 20.
RelayConfigs ==
    {RelayConfig(IPPort(ip, 67), UpstreamServer, maxHops) :
        ip \in {RelayAddr, IPv4zero}, maxHops \in {4, 16, 20}}

\* Received packets: requests, replies and another op code; hop counts
\* around the limits and at the top of a byte; giaddr zero, the relay's and
\* another relay's; ciaddr zero and set; either broadcast flag.
RelayPackets ==
    {RelayPacket(op, hops, gi, ci, bcast) :
        op \in {OpcodeBootRequest, OpcodeBootReply, 3},
        hops \in {0, 3, 4, 15, 16, 17, 255},
        gi \in {IPv4zero, RelayAddr, OtherRelay},
        ci \in {IPv4zero, ClientAddr},
        bcast \in BOOLEAN}

\* One delivery to handleFunc: the datagram as read, and m, the packet
\* server4 parsed from it.
RelayCalls == {[wire |-> ToBytes(p), pkt |-> FromBytes(ToBytes(p)), peer |-> Peer] : p \in RelayPackets}

RelayInit ==
    /\ h \in RelayConfigs
    /\ call \in RelayCalls
    /\ handled = FALSE
    /\ sent = <<>>
    /\ span = "Unset"
    /\ ret = NotCalled
    /\ ListenerIdle

\* relay.Config.handleFunc(conn, peer, m)
RelayHandle ==
    /\ h.kind = "relay"
    /\ ~handled
    /\ handled' = TRUE
    /\ sent' = handleFunc(h, call.pkt).sent
    /\ call' = [call EXCEPT !.pkt = handleFunc(h, call.pkt).m]
    /\ UNCHANGED <<h, span, ret, lvars>>

RelayNext == RelayHandle

RelaySpec == RelayInit /\ [][RelayNext]_vars

(***************************************************************************)
(* Properties of the received packet, the handler's fields and the relay.  *)
(***************************************************************************)

\* C32 as stated: after a handler has handled a packet, every field of the
\* parsed packet it was given is what it was before the call.
C32_ReceivedPacketUnchanged ==
    handled => call.pkt = FromBytes(call.wire)

\* The relay has forwarded the packet it received with the given op code.
RelayForwarded(op) ==
    handled /\ h.kind = "relay" /\ Len(sent) = 1 /\ FromBytes(call.wire).OpCode = op

\* C36 as stated: a BOOTREQUEST the relay forwards carries the received
\* packet's hop count plus one.
C36_ForwardedHopsPlusOne ==
    RelayForwarded(OpcodeBootRequest)
        => Reply.HopCount = FromBytes(call.wire).HopCount + 1

\* C37 as stated: a BOOTREQUEST the relay accepts is written to the
\* configured DHCPServer address, whatever giaddr the request came with.
C37_RequestGoesUpstream ==
    RelayForwarded(OpcodeBootRequest) => sent[1].addr = h.DHCPServer

\* C38 as stated: a BOOTREPLY the relay forwards is flagged unicast when
\* its giaddr or its ciaddr is not zero, and broadcast only when both are.
C38_ReplyCastType ==
    RelayForwarded(OpcodeBootReply)
        => (Reply.Broadcast
              <=> (/\ FromBytes(call.wire).GatewayIPAddr = IPv4zero
                   /\ FromBytes(call.wire).ClientIPAddr = IPv4zero))

\* C33 as stated: no Handle invocation writes a field of the handler
\* (Backend, Log, Netboot, IPAddr).
C33_HandlerNeverWritten == [][h' = h]_vars

\* C34 as stated: ListenAndServe binds the Listener's Addr when one is set,
\* and 0.0.0.0:67 only when Addr is unset.
C34_BindsConfiguredAddr ==
    (call.fn = "ListenAndServeBind" /\ ret # NotCalled)
        => ret.bound = (IF call.addr = ZeroAddrPort THEN DefaultAddr ELSE call.addr)

\* C35 as stated: a backend's Read returns a non-nil DHCP record and a
\* non-nil Netboot record with a nil error, or a non-nil error.
C35_ReadRecordsOrError ==
    (call.fn = "Read" /\ ret # NotCalled)
        => \/ ret.err # ""
           \/ (ret.d # <<>> /\ ret.n # <<>>)

\* The Proxy handler has handled a DISCOVER or REQUEST of a client it
\* serves: netboot is enabled, the backend found a record that allows
\* netboot, the packet is a netboot client's and the reply was built.
ProxyEligibleHandled ==
    /\ HandledType({DISCOVER, REQUEST})
    /\ h.kind = "proxy"
    /\ h.Netboot.Enabled
    /\ BackendFound
    /\ call.answer.n.AllowNetboot
    /\ isNetbootClient(call.pkt) = ""
    /\ ReplyBuilt

\* C39: when the Proxy handler serves an eligible netboot client whose
\* architecture has no entry in ArchToBootFile, the reply is still sent, and
\* it has file "/netboot-not-allowed", siaddr 0.0.0.0 and no option 43.
C39_ProxyUnknownArchRefusal ==
    (ProxyEligibleHandled /\ arch(call.pkt) \notin DOMAIN ArchToBootFile)
        => /\ Len(sent) = 1
           /\ Reply.BootFileName = "/netboot-not-allowed"
           /\ Reply.ServerIPAddr = IPv4zero
           /\ ~Has(Reply.Options, OptionVendorSpecificInformation)

\* C39 witness: the Proxy handler has replied to an eligible client that
\* sent option 93 with an architecture the table does not hold.
C39_Witness ==
    /\ ProxyEligibleHandled
    /\ Len(call.pkt.Options[OptionClientSystemArchitectureType]) > 0
    /\ arch(call.pkt) \notin DOMAIN ArchToBootFile
    /\ Len(sent) = 1

(***************************************************************************)
(* The Listener with a Shutdown method: Serve stores the server under      *)
(* l.srvMu and runs its loop; Shutdown closes the stored server.           *)
(***************************************************************************)

\* Serve(c, h...) of this Listener, with no handler and with one, on no
\* connection and on an open one.
ShutdownCalls ==
    [fn : {"ServeAndShutdown"}, h : {<<>>, <<Registered(1)>>}, c : {"nil", "open"}]

ShutdownInit ==
    /\ call \in ShutdownCalls
    /\ handlers = call.h
    /\ conn = call.c
    /\ ShutdownIdle
    /\ ctxDone = FALSE
    /\ servePc = "idle"
    /\ serveRet = [case |-> "", err |-> ""]
    /\ srvPc = "idle"
    /\ errCh = <<>>
    /\ received = 0
    /\ gor = <<>>
    /\ h = <<>>
    /\ handled = FALSE
    /\ sent = <<>>
    /\ span = "Unset"
    /\ ret = NotCalled

\* Listener.Serve(c) up to server4.NewServer: the noop default, the nil
\* connection.
ShutdownServeStart ==
    /\ servePc = "idle"
    /\ call.fn = "ServeAndShutdown"
    /\ handlers' = withNoopDefault(handlers)
    /\ IF conn = "nil"
       THEN /\ servePc' = "returned"
            /\ serveRet' = [case |-> "c == nil", err |-> "no connection specified"]
       ELSE /\ servePc' = "l.srv = dhcp"
            /\ serveRet' = serveRet
    /\ UNCHANGED <<ctxDone, conn, srvPc, errCh, received, gor, hvars, svars>>

\* Serve's "l.srvMu.Lock(); l.srv = dhcp; l.srvMu.Unlock()", then it calls
\* l.srv.Serve().
StoreServer ==
    /\ servePc = "l.srv = dhcp"
    /\ srvMu = ""
    /\ srv' = "set"
    /\ servePc' = "l.srv.Serve()"
    /\ srvPc' = "ReadFrom"
    /\ UNCHANGED <<handlers, ctxDone, conn, serveRet, errCh, received, gor, hvars, srvMu,
                   shutPc, shutRet>>

\* server4.Serve's "defer s.Close()" runs and l.srv.Serve() returns the read
\* error, which Listener.Serve returns.
ServeReturn ==
    /\ servePc = "l.srv.Serve()"
    /\ srvPc = "Close"
    /\ conn' = Close(conn)
    /\ srvPc' = "done"
    /\ servePc' = "returned"
    /\ serveRet' = [case |-> "l.srv.Serve()", err |-> "read error"]
    /\ UNCHANGED <<handlers, ctxDone, errCh, received, gor, hvars, svars>>

\* A Shutdown that returns nil for a stored server without closing it.
ShutdownWithoutClose(s, c) ==
    IF s = "nil" THEN [err |-> "no server to shutdown", conn |-> c]
    ELSE [err |-> "", conn |-> c]

\* Listener.Shutdown under the lock: the error when no server is stored,
\* else l.srv.Close(), which closes the connection.
Shutdown(s, c) ==
    IF s = "nil" THEN [err |-> "no server to shutdown", conn |-> c]
    ELSE [err |-> CloseResult(c), conn |-> Close(c)]

\* Shutdown's "l.srvMu.Lock()".
ShutdownLock ==
    /\ call.fn = "ServeAndShutdown"
    /\ shutPc = "idle"
    /\ srvMu = ""
    /\ srvMu' = "Shutdown"
    /\ shutPc' = "locked"
    /\ UNCHANGED <<handlers, ctxDone, conn, servePc, serveRet, srvPc, errCh, received, gor,
                   hvars, srv, shutRet>>

\* The rest of Shutdown, and its deferred Unlock.
ShutdownReturn ==
    /\ shutPc = "locked"
    /\ shutRet' = [err |-> Shutdown(srv, conn).err]
    /\ conn' = Shutdown(srv, conn).conn
    /\ srvMu' = ""
    /\ shutPc' = "returned"
    /\ UNCHANGED <<handlers, ctxDone, servePc, serveRet, srvPc, errCh, received, gor, hvars,
                   srv>>

ShutdownNext ==
    \/ ShutdownServeStart
    \/ StoreServer
    \/ Receive
    \/ ReceiveMalformed
    \/ ReadError
    \/ ServeReturn
    \/ ShutdownLock
    \/ ShutdownReturn
    \/ Dispatch
    \/ Handling

ShutdownSpec == ShutdownInit /\ [][ShutdownNext]_vars

\* The Go scheduler runs every goroutine that can take a step: Serve before
\* and after it stores the server, its read on a closed connection, its
\* return, Shutdown once it holds the lock, and each packet's goroutine.
FairShutdownSpec ==
    /\ ShutdownSpec
    /\ WF_vars(ShutdownServeStart)
    /\ WF_vars(StoreServer)
    /\ WF_vars(ReadClosed)
    /\ WF_vars(ServeReturn)
    /\ WF_vars(ShutdownReturn)
    /\ \A g \in 1..MaxPackets : WF_vars(g <= Len(gor) /\ (Invoke(g) \/ HandlerDone(g)))

(***************************************************************************)
(* Properties of Serve and Shutdown.                                       *)
(***************************************************************************)

\* Shutdown returns "no server to shutdown" in this step.
ShutdownFindsNoServer ==
    shutPc = "locked" /\ shutPc' = "returned" /\ shutRet'.err = "no server to shutdown"

\* C40: however Serve and Shutdown interleave, a Shutdown that returns "no
\* server to shutdown" found no server stored and leaves the connection and
\* Serve as they were, and after any other Shutdown Serve eventually returns.
C40_ShutdownOrServeReturns ==
    /\ [][ShutdownFindsNoServer
            => (srv = "nil" /\ conn' = conn /\ servePc' = servePc /\ srvPc' = srvPc)]_vars
    /\ [](shutPc = "returned" => (shutRet.err = "no server to shutdown" \/ srv = "set"))
    /\ (shutPc = "returned" /\ shutRet.err # "no server to shutdown")
           ~> (servePc = "returned")

\* C40 witness: Shutdown closed the server while Serve was reading with one
\* packet delivered, and Serve has returned.
C40_Witness ==
    /\ call.fn = "ServeAndShutdown"
    /\ shutPc = "returned"
    /\ shutRet.err = "nil"
    /\ received >= 1
    /\ servePc = "returned"
    /\ serveRet.case = "l.srv.Serve()"

====
